---------------------------- MODULE Spec2Model ----------------------------
(***************************************************************************)
(* File registry and access-gated retrieval of the fileshare project:      *)
(* the upload, retrieval, short-link (ad gate) and admin handlers of the   *)
(* Cloudflare Pages functions, the metadata table (D1) and the object      *)
(* store (R2) they share, and the React client that follows the redirects. *)
(*                                                                         *)
(* A handler is split at the awaits on a store: one action is the effect   *)
(* of the awaited store call followed by the synchronous code up to the    *)
(* next store call.  Requests in flight live in procs.                     *)
(***************************************************************************)
EXTENDS Integers, Sequences, FiniteSets, TLC

VARIABLES
    now,      \* Date.now()
    files,    \* rows of table files (env.DB)
    bucket,   \* env.FILES_BUCKET: object key -> body
    usedIds,  \* how many UUIDs uuidv4() has returned so far
    procs,    \* the requests in flight, one slot per worker invocation
    resp,     \* the response sent by the step that led to this state
    browser,  \* the client: location, React state of App.jsx / AdScreen.js
    dead      \* history: the slugs of the rows deleted so far

vars == <<now, files, bucket, usedIds, procs, resp, browser, dead>>

----------------------------------------------------------------------------
(* Strings are sequences of tokens; a token is one character or one        *)
(* indivisible word.                                                       *)

\* the value of a missing form field, query parameter or header
Absent == <<"<undefined>">>

\* JavaScript truthiness of an optional string
Truthy(s) == s # Absent /\ s # <<>>

RECURSIVE IndexOf(_, _, _)
IndexOf(s, tok, i) ==
    IF i > Len(s) THEN 0
    ELSE IF s[i] = tok THEN i ELSE IndexOf(s, tok, i + 1)

\* percent-encoding of one token, as URLSearchParams / encodeURIComponent do
EncTok(t) ==
    CASE t = "&" -> "%26"
      [] t = "=" -> "%3D"
      [] t = "?" -> "%3F"
      [] t = "%" -> "%25"
      [] t = "/" -> "%2F"
      [] t = "/s/" -> "%2Fs%2F"
      [] t = "/f/" -> "%2Ff%2F"
      [] t = "/api/d/" -> "%2Fapi%2Fd%2F"
      [] t = "https://file.myozarniaung.com" -> "https%3A%2F%2Ffile.myozarniaung.com"
      [] t = "%26" -> "%2526"
      [] t = "%3D" -> "%253D"
      [] t = "%3F" -> "%253F"
      [] t = "%25" -> "%2525"
      [] t = "%2F" -> "%252F"
      [] OTHER -> t

DecTok(t) ==
    CASE t = "%26" -> "&"
      [] t = "%3D" -> "="
      [] t = "%3F" -> "?"
      [] t = "%25" -> "%"
      [] t = "%2F" -> "/"
      [] t = "%2Fs%2F" -> "/s/"
      [] t = "%2Ff%2F" -> "/f/"
      [] t = "%2Fapi%2Fd%2F" -> "/api/d/"
      [] t = "https%3A%2F%2Ffile.myozarniaung.com" -> "https://file.myozarniaung.com"
      [] t = "%2526" -> "%26"
      [] t = "%253D" -> "%3D"
      [] t = "%253F" -> "%3F"
      [] t = "%2525" -> "%25"
      [] t = "%252F" -> "%2F"
      [] OTHER -> t

encodeURIComponent(s) == [i \in 1..Len(s) |-> EncTok(s[i])]
decodeURIComponent(s) == [i \in 1..Len(s) |-> DecTok(s[i])]

\* one "k=v" piece of a query string -> [k, v], v decoded
ParsePair(s) ==
    LET e == IndexOf(s, "=", 1) IN
    IF e = 0 THEN [k |-> s, v |-> <<>>]
    ELSE [k |-> SubSeq(s, 1, e - 1),
          v |-> decodeURIComponent(SubSeq(s, e + 1, Len(s)))]

\* the query string after "?" -> the list of its pairs
RECURSIVE ParseQuery(_)
ParseQuery(s) ==
    IF s = <<>> THEN <<>>
    ELSE LET a == IndexOf(s, "&", 1) IN
         IF a = 0 THEN <<ParsePair(s)>>
         ELSE IF a = 1 THEN ParseQuery(Tail(s))
         ELSE <<ParsePair(SubSeq(s, 1, a - 1))>> \o ParseQuery(SubSeq(s, a + 1, Len(s)))

\* new URL(str): origin, path and searchParams of an absolute URL;
\* a string that does not start with an origin is not a URL (new URL throws)
Origin == "https://file.myozarniaung.com"

IsAbsoluteUrl(s) == Len(s) >= 1 /\ s[1] = Origin

ParseUrl(s) ==
    LET q == IndexOf(s, "?", 1) IN
    [origin |-> s[1],
     path   |-> IF q = 0 THEN Tail(s) ELSE SubSeq(s, 2, q - 1),
     query  |-> IF q = 0 THEN <<>> ELSE ParseQuery(SubSeq(s, q + 1, Len(s)))]

RECURSIVE SerializeQuery(_)
SerializeQuery(q) ==
    IF q = <<>> THEN <<>>
    ELSE q[1].k \o <<"=">> \o encodeURIComponent(q[1].v)
         \o (IF Len(q) = 1 THEN <<>> ELSE <<"&">> \o SerializeQuery(Tail(q)))

\* URL.toString()
UrlToString(u) ==
    <<u.origin>> \o (IF u.path = <<>> THEN <<"/">> ELSE u.path)
    \o (IF u.query = <<>> THEN <<>> ELSE <<"?">> \o SerializeQuery(u.query))

RECURSIVE FirstWithKey(_, _, _)
FirstWithKey(q, k, i) ==
    IF i > Len(q) THEN 0
    ELSE IF q[i].k = k THEN i ELSE FirstWithKey(q, k, i + 1)

\* URLSearchParams.get / c.req.query: the first value of the key, else undefined
SearchParamsGet(q, k) ==
    LET i == FirstWithKey(q, k, 1) IN IF i = 0 THEN Absent ELSE q[i].v

RECURSIVE DropKey(_, _)
DropKey(q, k) ==
    IF q = <<>> THEN <<>>
    ELSE IF q[1].k = k THEN DropKey(Tail(q), k) ELSE <<q[1]>> \o DropKey(Tail(q), k)

\* URLSearchParams.set: replace the first pair of the key and drop the others,
\* or append a new pair
SearchParamsSet(q, k, v) ==
    LET i == FirstWithKey(q, k, 1) IN
    IF i = 0 THEN Append(q, [k |-> k, v |-> v])
    ELSE SubSeq(q, 1, i - 1) \o <<[k |-> k, v |-> v]>> \o DropKey(SubSeq(q, i + 1, Len(q)), k)

\* URLSearchParams.delete
SearchParamsDelete(q, k) == DropKey(q, k)

\* c.req.param('slug') and c.req.query(name) of a request URL
ReqSlug(url) == LET p == ParseUrl(url).path IN IF Len(p) >= 2 THEN p[2] ELSE ""
ReqQuery(url, name) == SearchParamsGet(ParseUrl(url).query, <<name>>)

----------------------------------------------------------------------------
(* Hashing, keys, table                                                     *)

\* SHA-256 hex digest: injective on the strings of the model
hashString(input) == <<"sha256:">> \o input
hashPasscode(passcode) == hashString(passcode)

\* passcode_hash NULL, expiry_timestamp NULL
NullHash == <<>>
NullTs == 0

\* `files/${fileId}-${original_filename}`
r2ObjectKey(fileId, filename) == <<"files", "/">> \o fileId \o <<"-">> \o filename

\* columns of table files, and those declared NOT NULL without a default
FilesColumns ==
    {"id", "short_url_slug", "original_filename", "mime_type", "file_size",
     "upload_timestamp", "expiry_timestamp", "passcode_hash", "is_private"}
NotNullColumns == {"id", "short_url_slug", "original_filename", "upload_timestamp"}

\* SELECT ... FROM files WHERE short_url_slug = ?
SelectBySlug(slug) == {r \in files : r.short_url_slug = slug}
\* SELECT ... FROM files WHERE id = ?
SelectById(id) == {r \in files : r.id = id}

\* InsertAccepted on a table without the UNIQUE constraint of short_url_slug
InsertAccepted_NoUnique(columns, row) ==
    /\ columns \subseteq FilesColumns
    /\ NotNullColumns \subseteq columns
    /\ SelectById(row.id) = {}

\* whether INSERT INTO files (columns) VALUES (row) is accepted by the table:
\* known columns, NOT NULL columns bound, id PRIMARY KEY, short_url_slug UNIQUE
InsertAccepted(columns, row) ==
    /\ columns \subseteq FilesColumns
    /\ NotNullColumns \subseteq columns
    /\ SelectById(row.id) = {}
    /\ SelectBySlug(row.short_url_slug) = {}


----------------------------------------------------------------------------
(* Inputs                                                                   *)

Slugs == {"s1", "s2"}
\* the values uuidv4() returns, in the order it returns them: never one twice
UUIDs == << <<"u1", "-", "a">>, <<"u2", "-", "b">>, <<"u3", "-", "c">> >>
uuidv4(n) == UUIDs[n + 1]
PassA == <<"abc">>
PassB == <<"x", "&", "z">>
DayMs == 24 * 60 * 60 * 1000
StartTime == 1000

\* the file part of a form without a file
NoFilePart == [name |-> <<>>, type |-> "", body |-> <<>>]

\* multipart forms of POST /api/upload
FileForm(body, passcode, expiryDays, isPrivate) ==
    [fileKind |-> "file",
     file |-> [name |-> <<"a.txt">>, type |-> "text/plain", body |-> body],
     passcode |-> passcode, expiryDays |-> expiryDays, isPrivate |-> isPrivate]
NoFileForm(kind) ==
    [fileKind |-> kind, file |-> NoFilePart, passcode |-> Absent, expiryDays |-> Absent,
     isPrivate |-> FALSE]

\* query strings of a retrieval request: passcode and ad parameters
RetrievalQueries ==
    {pq \o aq :
        pq \in {<<>>} \cup {<<[k |-> <<"passcode">>, v |-> v]>> : v \in {<<>>, PassA, PassB}},
        aq \in {<<>>} \cup {<<[k |-> <<"ad">>, v |-> v]>> : v \in {<<"seen">>, <<"1">>}}}

RetrievalUrl(route, slug, q) ==
    UrlToString([origin |-> Origin, path |-> <<route, slug>>, query |-> q])

RetrievalUrls(routes) ==
    {RetrievalUrl(r, s, q) : r \in routes, s \in Slugs, q \in RetrievalQueries}

\* parseInt of a form value: the numerals of the model, anything else is NaN
Numerals == {<<"0">>, <<"1">>}
parseInt(s) == IF s = <<"1">> THEN 1 ELSE 0
isNaN_parseInt(s) == s \notin Numerals

----------------------------------------------------------------------------
(* Requests in flight and responses                                         *)

NoRow ==
    [id |-> <<>>, short_url_slug |-> "", original_filename |-> <<>>, mime_type |-> "",
     file_size |-> 0, upload_timestamp |-> 0, expiry_timestamp |-> NullTs,
     passcode_hash |-> NullHash, is_private |-> 0]

Idle ==
    [pc |-> "idle", route |-> "", req |-> <<>>, row |-> NoRow, t |-> 0,
     client |-> FALSE, trace |-> <<>>]

\* a response: the request it answers, status, Location, body and
\* Content-Length; the access decision, the row the handler read and the
\* clock value it read (at), and the store calls the handler made (trace)
NoResp ==
    [route |-> "", req |-> <<>>, status |-> 0, decision |-> "", location |-> <<>>,
     body |-> <<>>, length |-> 0, out |-> <<>>, row |-> NoRow, at |-> 0, trace |-> <<>>]

Respond(route, req, status, decision, trace) ==
    [NoResp EXCEPT !.route = route, !.req = req, !.status = status,
                   !.decision = decision, !.trace = trace]

\* bucket.put(key, body)
\* bucket.put that stores no bytes
BucketPut_Empty(key, body) ==
    [k \in DOMAIN bucket \cup {key} |-> IF k = key THEN <<>> ELSE bucket[k]]

\* bucket.put(key, body)
BucketPut(key, body) ==
    [k \in DOMAIN bucket \cup {key} |-> IF k = key THEN body ELSE bucket[k]]
\* bucket.delete(key) that deletes nothing
BucketDelete_Noop(key) == bucket

\* bucket.delete(key)
BucketDelete(key) == [k \in DOMAIN bucket \ {key} |-> bucket[k]]

----------------------------------------------------------------------------
(* POST /api/upload                                                         *)

\* passcodeHash of an upload: the hash of a non-empty passcode, else null
UploadPasscodeHash(passcode) ==
    IF Truthy(passcode) /\ Len(passcode) > 0 THEN hashString(passcode) ELSE NullHash

\* ExpiryTimestamp that takes zero days as an expiry at once
ExpiryTimestamp_ZeroExpires(expiryDays, t) ==
    IF Truthy(expiryDays) /\ ~isNaN_parseInt(expiryDays) /\ parseInt(expiryDays) >= 0
    THEN t + parseInt(expiryDays) * 24 * 60 * 60 * 1000
    ELSE NullTs

\* expiryTimestamp of an upload
ExpiryTimestamp(expiryDays, t) ==
    IF Truthy(expiryDays) /\ ~isNaN_parseInt(expiryDays) /\ parseInt(expiryDays) > 0
    THEN t + parseInt(expiryDays) * 24 * 60 * 60 * 1000
    ELSE NullTs

\* UploadStart that takes a string in the file field as a file
UploadStart_StringAsFile(p, form, maxIds) ==
    /\ procs[p].pc = "idle"
    /\ IF form.fileKind = "absent"
       THEN /\ resp' = Respond("/api/upload", form, 400, "ValidationError", <<>>)
            /\ UNCHANGED <<procs, usedIds>>
       ELSE /\ usedIds < maxIds
            /\ usedIds < Len(UUIDs)
            /\ usedIds' = usedIds + 1
            /\ procs' = [procs EXCEPT ![p] =
                   [Idle EXCEPT !.pc = "slug", !.route = "/api/upload", !.req = form,
                                !.row = [NoRow EXCEPT !.id = uuidv4(usedIds)]]]
            /\ resp' = NoResp
    /\ UNCHANGED <<now, files, bucket, browser, dead>>

\* the form is read and checked, the file id drawn; the slug loop starts
UploadStart(p, form, maxIds) ==
    /\ procs[p].pc = "idle"
    /\ IF form.fileKind # "file"
       THEN /\ resp' = Respond("/api/upload", form, 400, "ValidationError", <<>>)
            /\ UNCHANGED <<procs, usedIds>>
       ELSE /\ usedIds < maxIds
            /\ usedIds < Len(UUIDs)
            /\ usedIds' = usedIds + 1
            /\ procs' = [procs EXCEPT ![p] =
                   [Idle EXCEPT !.pc = "slug", !.route = "/api/upload", !.req = form,
                                !.row = [NoRow EXCEPT !.id = uuidv4(usedIds)]]]
            /\ resp' = NoResp
    /\ UNCHANGED <<now, files, bucket, browser, dead>>

\* generateShortUrlSlug: one draw and its existence check; a slug that is
\* taken is kept in the variable slug and the loop goes on; a free slug is
\* returned, then the key, the hash and the expiry are computed
UploadSlug(p, slug) ==
    LET q == procs[p]  form == q.req IN
    /\ q.pc = "slug"
    /\ q.route = "/api/upload"
    /\ IF SelectBySlug(slug) # {}
       THEN procs' = [procs EXCEPT ![p] =
                [q EXCEPT !.trace = <<"db.select">>,
                          !.row = [q.row EXCEPT !.short_url_slug = slug]]]
       ELSE procs' = [procs EXCEPT ![p] =
                [q EXCEPT !.pc = "put",
                          !.trace = <<"db.select">>,
                          !.row = [q.row EXCEPT
                              !.short_url_slug = slug,
                              !.original_filename = form.file.name,
                              !.mime_type = form.file.type,
                              !.file_size = Len(form.file.body),
                              !.expiry_timestamp = ExpiryTimestamp(form.expiryDays, now),
                              !.passcode_hash = UploadPasscodeHash(form.passcode),
                              !.is_private = IF form.isPrivate THEN 1 ELSE 0]]]
    /\ resp' = NoResp
    /\ UNCHANGED <<now, files, bucket, usedIds, browser, dead>>

\* UploadPut that writes the object under a key without the filename
UploadPut_KeyById(p, ok) ==
    LET q == procs[p] IN
    /\ q.pc = "put"
    /\ q.route = "/api/upload"
    /\ IF ok
       THEN /\ bucket' = BucketPut(r2ObjectKey(q.row.id, <<>>), q.req.file.body)
            /\ procs' = [procs EXCEPT ![p] =
                   [q EXCEPT !.pc = "insert", !.trace = Append(q.trace, "r2.put"),
                             !.row = [q.row EXCEPT !.upload_timestamp = now]]]
            /\ resp' = NoResp
       ELSE /\ bucket' = bucket
            /\ procs' = [procs EXCEPT ![p] = Idle]
            /\ resp' = Respond("/api/upload", q.req, 500, "StorageUnavailable",
                               Append(q.trace, "r2.put"))
    /\ UNCHANGED <<now, files, usedIds, browser, dead>>

\* FILES_BUCKET.put takes effect or throws; Date.now() is bound for the insert
UploadPut(p, ok) ==
    LET q == procs[p] IN
    /\ q.pc = "put"
    /\ q.route = "/api/upload"
    /\ IF ok
       THEN /\ bucket' = BucketPut(r2ObjectKey(q.row.id, q.req.file.name), q.req.file.body)
            /\ procs' = [procs EXCEPT ![p] =
                   [q EXCEPT !.pc = "insert", !.trace = Append(q.trace, "r2.put"),
                             !.row = [q.row EXCEPT !.upload_timestamp = now]]]
            /\ resp' = NoResp
       ELSE /\ bucket' = bucket
            /\ procs' = [procs EXCEPT ![p] = Idle]
            /\ resp' = Respond("/api/upload", q.req, 500, "StorageUnavailable",
                               Append(q.trace, "r2.put"))
    /\ UNCHANGED <<now, files, usedIds, browser, dead>>

\* UploadInsert that goes back to the slug loop when the insert fails
UploadInsert_RetrySlug(p, ok) ==
    LET q == procs[p] IN
    /\ q.pc = "insert"
    /\ q.route = "/api/upload"
    /\ IF ok /\ InsertAccepted(FilesColumns, q.row)
       THEN /\ files' = files \cup {q.row}
            /\ resp' = [Respond("/api/upload", q.req, 200, "Created",
                                Append(q.trace, "db.insert")) EXCEPT
                        !.out = [shortUrlSlug |-> q.row.short_url_slug,
                                 originalFilename |-> q.req.file.name,
                                 isPrivate |-> q.req.isPrivate,
                                 expiryTimestamp |-> q.row.expiry_timestamp]]
            /\ procs' = [procs EXCEPT ![p] = Idle]
       ELSE /\ files' = files
            /\ resp' = NoResp
            /\ procs' = [procs EXCEPT ![p] = [q EXCEPT !.pc = "slug"]]
    /\ UNCHANGED <<now, bucket, usedIds, browser, dead>>

\* UploadInsert that deletes the written object when the insert fails
UploadInsert_Rollback(p, ok) ==
    LET q == procs[p] IN
    /\ q.pc = "insert"
    /\ q.route = "/api/upload"
    /\ IF ok /\ InsertAccepted(FilesColumns, q.row)
       THEN /\ files' = files \cup {q.row}
            /\ bucket' = bucket
            /\ resp' = [Respond("/api/upload", q.req, 200, "Created",
                                Append(q.trace, "db.insert")) EXCEPT
                        !.out = [shortUrlSlug |-> q.row.short_url_slug,
                                 originalFilename |-> q.req.file.name,
                                 isPrivate |-> q.req.isPrivate,
                                 expiryTimestamp |-> q.row.expiry_timestamp]]
       ELSE /\ files' = files
            /\ bucket' = BucketDelete(r2ObjectKey(q.row.id, q.req.file.name))
            /\ resp' = Respond("/api/upload", q.req, 500, "StorageUnavailable",
                               Append(q.trace, "db.insert"))
    /\ procs' = [procs EXCEPT ![p] = Idle]
    /\ UNCHANGED <<now, usedIds, browser, dead>>

\* INSERT INTO files takes effect or throws; the response is sent
UploadInsert(p, ok) ==
    LET q == procs[p] IN
    /\ q.pc = "insert"
    /\ q.route = "/api/upload"
    /\ IF ok /\ InsertAccepted(FilesColumns, q.row)
       THEN /\ files' = files \cup {q.row}
            /\ resp' = [Respond("/api/upload", q.req, 200, "Created",
                                Append(q.trace, "db.insert")) EXCEPT
                        !.out = [shortUrlSlug |-> q.row.short_url_slug,
                                 originalFilename |-> q.req.file.name,
                                 isPrivate |-> q.req.isPrivate,
                                 expiryTimestamp |-> q.row.expiry_timestamp]]
       ELSE /\ files' = files
            /\ resp' = Respond("/api/upload", q.req, 500, "StorageUnavailable",
                               Append(q.trace, "db.insert"))
    /\ procs' = [procs EXCEPT ![p] = Idle]
    /\ UNCHANGED <<now, bucket, usedIds, browser, dead>>


----------------------------------------------------------------------------
(* The client: App.jsx                                                      *)

CountdownStart == 5

BrowserInit ==
    [page |-> "blank", nav |-> <<>>, sent |-> FALSE, location |-> <<>>,
     showAdScreen |-> FALSE, adScreenDownloadUrl |-> <<>>,
     adScreenCountdown |-> CountdownStart, timer |-> FALSE,
     renderedCountdown |-> CountdownStart, stale |-> FALSE, passive |-> FALSE,
     showDownloadPrompt |-> FALSE, downloadSlug |-> <<>>, downloadPasscode |-> <<>>,
     promptMessage |-> <<>>, errorMessage |-> <<>>,
     got |-> <<>>, adsShown |-> 0, prompts |-> 0]

\* App's mount effect on a page load at location loc: the ad screen, an error,
\* or the passcode prompt, from the search parameters; then the first run of
\* the countdown effect arms the interval
AppMount(b, loc) ==
    LET q == ParseUrl(loc).query
        slugFromUrl == SearchParamsGet(q, <<"slug">>)
        promptDownloadFromUrl == SearchParamsGet(q, <<"promptDownload">>) = <<"true">>
        messageFromUrl == SearchParamsGet(q, <<"message">>)
        errorFromUrl == SearchParamsGet(q, <<"error">>)
        showAdFromUrl == SearchParamsGet(q, <<"showAd">>) = <<"true">>
        downloadUrlFromAd == SearchParamsGet(q, <<"downloadUrl">>)
        fresh == [BrowserInit EXCEPT !.page = "app", !.adsShown = b.adsShown,
                                     !.prompts = b.prompts]
    IN
    IF showAdFromUrl /\ Truthy(downloadUrlFromAd)
    THEN [fresh EXCEPT
            !.showAdScreen = TRUE,
            !.adScreenDownloadUrl = downloadUrlFromAd,
            !.adScreenCountdown = CountdownStart,
            !.timer = TRUE,
            !.adsShown = b.adsShown + 1,
            !.location = UrlToString([ParseUrl(loc) EXCEPT !.query =
                SearchParamsDelete(SearchParamsDelete(q, <<"showAd">>), <<"downloadUrl">>)])]
    ELSE IF Truthy(errorFromUrl)
    THEN [fresh EXCEPT !.errorMessage = decodeURIComponent(errorFromUrl),
                       !.location = <<Origin, "/">>]
    ELSE IF Truthy(slugFromUrl) /\ promptDownloadFromUrl
    THEN [fresh EXCEPT
            !.downloadSlug = slugFromUrl,
            !.promptMessage =
                decodeURIComponent(IF Truthy(messageFromUrl) THEN messageFromUrl ELSE <<>>),
            !.showDownloadPrompt = TRUE,
            !.prompts = b.prompts + 1,
            !.location = <<Origin, "/">>]
    ELSE [fresh EXCEPT !.location = loc]

\* what the browser shows once the response r to its navigation has arrived:
\* a redirect is followed to the frontend, a body is the download
BrowserAfter(b, r) ==
    IF r.status = 302 THEN AppMount(b, r.location)
    ELSE IF r.status = 200
    THEN [BrowserInit EXCEPT !.page = "download", !.got = r.body, !.location = b.nav,
                             !.adsShown = b.adsShown, !.prompts = b.prompts]
    ELSE [BrowserInit EXCEPT !.page = "json", !.location = b.nav,
                             !.adsShown = b.adsShown, !.prompts = b.prompts]

Deliver(client, r) == IF client THEN BrowserAfter(browser, r) ELSE browser

----------------------------------------------------------------------------
(* GET /f/:slug, GET /api/d/:slug, GET /s/:slug                             *)

\* Evaluate without the comparison of the hashes
Evaluate_SkipHash(fileMetadata, t, providedPasscode) ==
    IF fileMetadata.expiry_timestamp # NullTs /\ t > fileMetadata.expiry_timestamp
    THEN "Expired"
    ELSE IF fileMetadata.is_private = 1 /\ ~Truthy(providedPasscode)
    THEN "PasscodeRequired"
    ELSE "Granted"

\* Evaluate with the expiry instant itself taken as expired
Evaluate_ExpiryInclusive(fileMetadata, t, providedPasscode) ==
    IF fileMetadata.expiry_timestamp # NullTs /\ t >= fileMetadata.expiry_timestamp
    THEN "Expired"
    ELSE IF fileMetadata.is_private = 1
    THEN IF ~Truthy(providedPasscode) THEN "PasscodeRequired"
         ELSE IF hashString(providedPasscode) # fileMetadata.passcode_hash
         THEN "PasscodeInvalid"
         ELSE "Granted"
    ELSE "Granted"

\* Evaluate that asks for the passcode whenever the row stores a hash
Evaluate_HashWhenStored(fileMetadata, t, providedPasscode) ==
    IF fileMetadata.expiry_timestamp # NullTs /\ fileMetadata.expiry_timestamp # 0
       /\ t > fileMetadata.expiry_timestamp
    THEN "Expired"
    ELSE IF fileMetadata.is_private = 1 \/ fileMetadata.passcode_hash # NullHash
    THEN IF ~Truthy(providedPasscode) THEN "PasscodeRequired"
         ELSE IF hashString(providedPasscode) # fileMetadata.passcode_hash
         THEN "PasscodeInvalid"
         ELSE "Granted"
    ELSE "Granted"

\* the access decision of a retrieval, on the row read from the table
Evaluate(fileMetadata, t, providedPasscode) ==
    IF fileMetadata.expiry_timestamp # NullTs /\ fileMetadata.expiry_timestamp # 0
       /\ t > fileMetadata.expiry_timestamp
    THEN "Expired"
    ELSE IF fileMetadata.is_private = 1
    THEN IF ~Truthy(providedPasscode) THEN "PasscodeRequired"
         ELSE IF hashString(providedPasscode) # fileMetadata.passcode_hash
         THEN "PasscodeInvalid"
         ELSE "Granted"
    ELSE "Granted"

\* the store calls a decision has made
EvaluateTrace(fileMetadata, decision) ==
    IF decision \in {"PasscodeInvalid", "Granted"} /\ fileMetadata.is_private = 1
    THEN <<"db.select", "hash">>
    ELSE <<"db.select">>

\* AdScreenRedirectUrl carrying the request URL without its query string
AdScreenRedirectUrl_NoQuery(url) ==
    LET u == ParseUrl(url)
        q1 == SearchParamsSet(<<>>, <<"showAd">>, <<"true">>)
        q2 == SearchParamsSet(q1, <<"downloadUrl">>, <<u.origin>> \o u.path)
    IN UrlToString([origin |-> u.origin, path |-> <<>>, query |-> q2])

\* the redirect of /s/:slug to the ad screen of the React app
AdScreenRedirectUrl(url) ==
    LET currentFullDownloadUrl == url
        currentOrigin == ParseUrl(url).origin
        q1 == SearchParamsSet(<<>>, <<"showAd">>, <<"true">>)
        q2 == SearchParamsSet(q1, <<"downloadUrl">>, currentFullDownloadUrl)
    IN UrlToString([origin |-> currentOrigin, path |-> <<>>, query |-> q2])

ErrorRedirect(msg) ==
    <<Origin, "/", "?", "error", "=">> \o encodeURIComponent(<<msg>>)

\* a prompt redirect that is an error redirect
PromptRedirect_AsError(slug, msg) ==
    <<Origin, "/", "?", "error", "=">> \o encodeURIComponent(<<msg>>)

\* the redirect of /s/ to the passcode prompt of the frontend
PromptRedirect(slug, msg) ==
    <<Origin, "/", "?", "slug", "=", slug, "&", "promptDownload", "=", "true", "&",
      "message", "=">> \o encodeURIComponent(<<msg>>)

\* the response of a route to an outcome that ends the request
Reply(route, url, decision, trace) ==
    LET r == Respond(route, url, 0, decision, trace) IN
    IF route = "/s/"
    THEN [r EXCEPT !.status = 302, !.location =
            CASE decision = "NotFound" -> ErrorRedirect("File not found or has been removed.")
              [] decision = "Expired" ->
                    ErrorRedirect("This file has expired and is no longer available.")
              [] decision = "PasscodeRequired" ->
                    PromptRedirect(ReqSlug(url),
                        "This file is private. Please enter the passcode to download.")
              [] decision = "PasscodeInvalid" ->
                    PromptRedirect(ReqSlug(url), "Invalid passcode provided.")
              [] decision = "Missing" -> ErrorRedirect("File content not found in storage.")
              [] OTHER -> ErrorRedirect("An unexpected error occurred during download.")]
    ELSE [r EXCEPT !.status =
            CASE decision = "NotFound" -> 404
              [] decision = "Expired" -> 410
              [] decision = "PasscodeRequired" -> 401
              [] decision = "PasscodeInvalid" -> 403
              [] decision = "Missing" -> 404
              [] OTHER -> 500]

\* a gate that takes every request as having seen the ad
AdSeen_Always(url) == TRUE

\* whether the short-link route takes the ad as seen
AdSeen(url) == ReqQuery(url, "ad") = <<"seen">>

\* the request arrives; /s/ redirects to the ad screen unless ad=seen; the
\* metadata row is read and the access decision taken
RetrieveStart(p, route, url, client, ok) ==
    LET slug == ReqSlug(url)
        providedPasscode == ReqQuery(url, "passcode")
        results == SelectBySlug(slug)
    IN
    /\ procs[p].pc = "idle"
    /\ IF client THEN browser.nav = url /\ ~browser.sent ELSE browser.nav = <<>>
    /\ IF route = "/s/" /\ ~AdSeen(url)
       THEN /\ resp' = [Respond(route, url, 302, "Gate", <<>>) EXCEPT
                           !.location = AdScreenRedirectUrl(url)]
            /\ procs' = procs
       ELSE IF ~ok
       THEN /\ resp' = Reply(route, url, "Error", <<"db.select">>)
            /\ procs' = procs
       ELSE IF results = {}
       THEN /\ resp' = Reply(route, url, "NotFound", <<"db.select">>)
            /\ procs' = procs
       ELSE \E fileMetadata \in results :
            LET decision == Evaluate(fileMetadata, now, providedPasscode)
                trace == EvaluateTrace(fileMetadata, decision)
            IN
            IF decision # "Granted"
            THEN /\ resp' = [Reply(route, url, decision, trace) EXCEPT
                                !.row = fileMetadata, !.at = now]
                 /\ procs' = procs
            ELSE /\ resp' = NoResp
                 /\ procs' = [procs EXCEPT ![p] =
                        [Idle EXCEPT !.pc = "get", !.route = route, !.req = url,
                                     !.row = fileMetadata, !.t = now, !.client = client,
                                     !.trace = trace]]
    /\ browser' = IF resp'.route = "" THEN [browser EXCEPT !.sent = client \/ browser.sent]
                  ELSE Deliver(client, resp')
    /\ UNCHANGED <<now, files, bucket, usedIds, dead>>

\* RetrieveGet that answers a missing object as an unexpected error
RetrieveGet_MissingAsError(p, ok) ==
    LET q == procs[p]
        key == r2ObjectKey(q.row.id, q.row.original_filename)
        trace == Append(q.trace, "r2.get")
        r == IF ~ok \/ key \notin DOMAIN bucket
             THEN [Reply(q.route, q.req, "Error", trace) EXCEPT !.out = <<"Error">>]
             ELSE [Respond(q.route, q.req, 200, "Granted", trace) EXCEPT
                        !.body = bucket[key], !.length = q.row.file_size]
    IN
    /\ q.pc = "get"
    /\ resp' = [r EXCEPT !.decision = "Granted", !.row = q.row, !.at = q.t]
    /\ procs' = [procs EXCEPT ![p] = Idle]
    /\ browser' = Deliver(q.client, resp')
    /\ UNCHANGED <<now, files, bucket, usedIds, dead>>

\* RetrieveGet that deletes the object it has sent
RetrieveGet_Consume(p, ok) ==
    LET q == procs[p]
        key == r2ObjectKey(q.row.id, q.row.original_filename)
        trace == Append(q.trace, "r2.get")
        r == IF ~ok
             THEN [Reply(q.route, q.req, "Error", trace) EXCEPT !.out = <<"Error">>]
             ELSE IF key \notin DOMAIN bucket
             THEN [Reply(q.route, q.req, "Missing", trace) EXCEPT !.out = <<"Missing">>]
             ELSE [Respond(q.route, q.req, 200, "Granted", trace) EXCEPT
                        !.body = bucket[key], !.length = q.row.file_size]
    IN
    /\ q.pc = "get"
    /\ resp' = [r EXCEPT !.decision = "Granted", !.row = q.row, !.at = q.t]
    /\ procs' = [procs EXCEPT ![p] = Idle]
    /\ browser' = Deliver(q.client, resp')
    /\ bucket' = IF ok THEN BucketDelete(key) ELSE bucket
    /\ UNCHANGED <<now, files, usedIds, dead>>

\* FILES_BUCKET.get answers; the bytes are sent with the headers of the row.
\* The decision of the response stays Granted; out tells a missing object or
\* a failed read
RetrieveGet(p, ok) ==
    LET q == procs[p]
        key == r2ObjectKey(q.row.id, q.row.original_filename)
        trace == Append(q.trace, "r2.get")
        r == IF ~ok
             THEN [Reply(q.route, q.req, "Error", trace) EXCEPT !.out = <<"Error">>]
             ELSE IF key \notin DOMAIN bucket
             THEN [Reply(q.route, q.req, "Missing", trace) EXCEPT !.out = <<"Missing">>]
             ELSE [Respond(q.route, q.req, 200, "Granted", trace) EXCEPT
                        !.body = bucket[key], !.length = q.row.file_size]
    IN
    /\ q.pc = "get"
    /\ resp' = [r EXCEPT !.decision = "Granted", !.row = q.row, !.at = q.t]
    /\ procs' = [procs EXCEPT ![p] = Idle]
    /\ browser' = Deliver(q.client, resp')
    /\ UNCHANGED <<now, files, bucket, usedIds, dead>>

----------------------------------------------------------------------------
(* Admin tokens                                                             *)

JWT_SECRET_KEY == "your_super_secret_jwt_key_12345"
TokenMinutes == 30

\* the users table of USER_DB
USER_DB ==
    {[id |-> "1", username |-> <<"root">>, password_hash |-> hashString(<<"rootpw">>),
      role |-> "admin"],
     [id |-> "2", username |-> <<"bob">>, password_hash |-> hashString(<<"bobpw">>),
      role |-> "user"]}

NoPayload == [userId |-> "", username |-> <<>>, role |-> "", exp |-> 0]

\* the three parts of a token: btoa(header), btoa(payload) and the HMAC of
\* "header.payload" under a key
HeaderPart == [kind |-> "header", hdr |-> "HS256", payload |-> NoPayload, key |-> ""]
PayloadPart(payload) == [kind |-> "payload", hdr |-> "", payload |-> payload, key |-> ""]
Hmac(key, hdr, payload) == [kind |-> "sig", hdr |-> hdr, payload |-> payload, key |-> key]
JunkPart == [kind |-> "junk", hdr |-> "", payload |-> NoPayload, key |-> ""]

SignedToken(key, payload) ==
    <<HeaderPart, PayloadPart(payload), Hmac(key, HeaderPart.hdr, payload)>>

generateToken(userId, username, role, expiresInMinutes, t) ==
    SignedToken(JWT_SECRET_KEY,
        [userId |-> userId, username |-> username, role |-> role,
         exp |-> t + expiresInMinutes * 60 * 1000])

\* verifyToken without the check of exp
verifyToken_NoExpiry(token, t) ==
    IF Len(token) # 3 THEN NoPayload
    ELSE IF token[3] # Hmac(JWT_SECRET_KEY, token[1].hdr, token[2].payload)
    THEN NoPayload
    ELSE IF token[2].kind # "payload" THEN NoPayload
    ELSE token[2].payload

\* verifyToken that takes the expiry instant itself as expired
verifyToken_ExpiryInclusive(token, t) ==
    IF Len(token) # 3 THEN NoPayload
    ELSE IF token[3] # Hmac(JWT_SECRET_KEY, token[1].hdr, token[2].payload)
    THEN NoPayload
    ELSE IF token[2].kind # "payload" THEN NoPayload
    ELSE IF token[2].payload.exp <= t THEN NoPayload
    ELSE token[2].payload

\* the payload of a token, or NoPayload (null): three parts, the signature is
\* the HMAC of the first two under the secret, the payload decodes, exp >= now
verifyToken(token, t) ==
    IF Len(token) # 3 THEN NoPayload
    ELSE IF token[3] # Hmac(JWT_SECRET_KEY, token[1].hdr, token[2].payload)
    THEN NoPayload
    ELSE IF token[2].kind # "payload" THEN NoPayload
    ELSE IF token[2].payload.exp < t THEN NoPayload
    ELSE token[2].payload

\* AdminAuth that answers a verified token of another role like an invalid one
AdminAuth_RoleAsInvalid(authHeader, t) ==
    IF authHeader = <<>> THEN 401
    ELSE LET payload == verifyToken(authHeader, t) IN
         IF payload = NoPayload \/ payload.role # "admin" THEN 401
         ELSE 0

\* AdminAuth that lets every verified token through, whatever its role
AdminAuth_NoRoleCheck(authHeader, t) ==
    IF authHeader = <<>> THEN 401
    ELSE IF verifyToken(authHeader, t) = NoPayload THEN 401
    ELSE 0

\* the middleware of /api/admin/*: 0 lets the request through
AdminAuth(authHeader, t) ==
    IF authHeader = <<>> THEN 401
    ELSE LET payload == verifyToken(authHeader, t) IN
         IF payload = NoPayload THEN 401
         ELSE IF payload.role # "admin" THEN 403
         ELSE 0

----------------------------------------------------------------------------
(* /api/admin/*                                                             *)

AdminRoute(kind) ==
    CASE kind = "login" -> "POST /api/admin/login"
      [] kind = "list" -> "GET /api/admin/files"
      [] kind = "update" -> "PUT /api/admin/files/:id"
      [] OTHER -> "DELETE /api/admin/files/:id"

AdminReq(kind, header, id, is_private, username, password) ==
    [kind |-> kind, header |-> header, id |-> id, is_private |-> is_private,
     username |-> username, password |-> password]

\* SELECT * FROM files
ListColumns_All(r) == r

\* SELECT id, short_url_slug, ..., is_private FROM files
ListColumns(r) ==
    [id |-> r.id, short_url_slug |-> r.short_url_slug,
     original_filename |-> r.original_filename, mime_type |-> r.mime_type,
     file_size |-> r.file_size, upload_timestamp |-> r.upload_timestamp,
     expiry_timestamp |-> r.expiry_timestamp, is_private |-> r.is_private]

\* an UPDATE that drops the passcode hash of a row it makes public
UpdateIsPrivate_PublicDropsHash(id, v) ==
    {IF r.id = id
     THEN [r EXCEPT !.is_private = v,
                    !.passcode_hash = IF v = 0 THEN NullHash ELSE r.passcode_hash]
     ELSE r : r \in files}

\* an UPDATE that also clears the passcode hash
UpdateIsPrivate_ClearsHash(id, v) ==
    {IF r.id = id THEN [r EXCEPT !.is_private = v, !.passcode_hash = NullHash] ELSE r :
        r \in files}

\* UPDATE files SET is_private = ? WHERE id = ?
UpdateIsPrivate(id, v) ==
    {IF r.id = id THEN [r EXCEPT !.is_private = v] ELSE r : r \in files}

\* LoginReply that issues a token whatever the role of the user is
LoginReply_NoRoleCheck(req, t) ==
    LET results == {u \in USER_DB : u.username = req.username}
        r == Respond(AdminRoute("login"), req, 0, "", <<"handler">>)
    IN
    IF ~Truthy(req.username) \/ ~Truthy(req.password)
    THEN [r EXCEPT !.status = 400, !.out = <<"Username and password are required.">>]
    ELSE IF results = {}
    THEN [r EXCEPT !.status = 401, !.out = <<"Invalid credentials.">>,
                   !.trace = <<"handler", "users.select">>]
    ELSE LET user == CHOOSE u \in results : TRUE IN
         IF hashString(req.password) # user.password_hash
         THEN [r EXCEPT !.status = 401, !.out = <<"Invalid credentials.">>,
                        !.trace = <<"handler", "users.select">>]
         ELSE [r EXCEPT !.status = 200,
                        !.out = generateToken(user.id, user.username, user.role,
                                              TokenMinutes, t),
                        !.trace = <<"handler", "users.select">>]

\* LoginReply that answers an unknown username with 404
LoginReply_UnknownUser404(req, t) ==
    LET results == {u \in USER_DB : u.username = req.username}
        r == Respond(AdminRoute("login"), req, 0, "", <<"handler", "users.select">>)
    IN
    IF ~Truthy(req.username) \/ ~Truthy(req.password)
    THEN [r EXCEPT !.status = 400, !.out = <<"Username and password are required.">>,
                   !.trace = <<"handler">>]
    ELSE IF results = {}
    THEN [r EXCEPT !.status = 404, !.out = <<"Unknown user.">>]
    ELSE LET user == CHOOSE u \in results : TRUE IN
         IF hashString(req.password) # user.password_hash
         THEN [r EXCEPT !.status = 401, !.out = <<"Invalid credentials.">>]
         ELSE IF user.role # "admin"
         THEN [r EXCEPT !.status = 403, !.out = <<"Forbidden: Admin access required.">>]
         ELSE [r EXCEPT !.status = 200,
                        !.out = generateToken(user.id, user.username, user.role,
                                              TokenMinutes, t)]

\* the handler of POST /api/admin/login, behind the middleware
LoginReply(req, t) ==
    LET results == {u \in USER_DB : u.username = req.username}
        r == Respond(AdminRoute("login"), req, 0, "", <<"handler">>)
    IN
    IF ~Truthy(req.username) \/ ~Truthy(req.password)
    THEN [r EXCEPT !.status = 400, !.out = <<"Username and password are required.">>]
    ELSE IF results = {}
    THEN [r EXCEPT !.status = 401, !.out = <<"Invalid credentials.">>,
                   !.trace = <<"handler", "users.select">>]
    ELSE LET user == CHOOSE u \in results : TRUE IN
         IF hashString(req.password) # user.password_hash
         THEN [r EXCEPT !.status = 401, !.out = <<"Invalid credentials.">>,
                        !.trace = <<"handler", "users.select">>]
         ELSE IF user.role # "admin"
         THEN [r EXCEPT !.status = 403, !.out = <<"Forbidden: Admin access required.">>,
                        !.trace = <<"handler", "users.select">>]
         ELSE [r EXCEPT !.status = 200,
                        !.out = generateToken(user.id, user.username, user.role,
                                              TokenMinutes, t),
                        !.trace = <<"handler", "users.select">>]

\* the reply of the middleware to a request it stops
AuthReply(req, code) ==
    [Respond(AdminRoute(req.kind), req, code, "AuthFailed", <<>>) EXCEPT
        !.out = IF code = 403 THEN <<"Forbidden: Admin access required.">>
                ELSE IF req.header = <<>> THEN <<"Authorization header missing.">>
                ELSE <<"Unauthorized: Invalid or expired token.">>]

\* a request to /api/admin/*: the middleware, then login, list, update, or
\* the first query of delete
AdminRequest(p, req, ok) ==
    LET code == AdminAuth(req.header, now)
        route == AdminRoute(req.kind)
    IN
    /\ procs[p].pc = "idle"
    /\ IF code # 0
       THEN /\ resp' = AuthReply(req, code)
            /\ UNCHANGED <<files, procs>>
       ELSE
       CASE req.kind = "login" ->
            /\ resp' = IF ok THEN LoginReply(req, now)
                       ELSE Respond(route, req, 500, "Error", <<"handler", "users.select">>)
            /\ UNCHANGED <<files, procs>>
         [] req.kind = "list" ->
            /\ resp' = IF ok
                       THEN [Respond(route, req, 200, "", <<"handler", "db.select">>) EXCEPT
                                !.out = {ListColumns(r) : r \in files}]
                       ELSE Respond(route, req, 500, "Error", <<"handler", "db.select">>)
            /\ UNCHANGED <<files, procs>>
         [] req.kind = "update" ->
            IF req.is_private = "undefined"
            THEN /\ resp' = Respond(route, req, 400, "ValidationError", <<"handler">>)
                 /\ UNCHANGED <<files, procs>>
            ELSE IF ~ok
            THEN /\ resp' = Respond(route, req, 500, "Error", <<"handler", "db.update">>)
                 /\ UNCHANGED <<files, procs>>
            ELSE /\ files' = UpdateIsPrivate(req.id, IF req.is_private = "true" THEN 1 ELSE 0)
                 /\ resp' = Respond(route, req, 200, "", <<"handler", "db.update">>)
                 /\ UNCHANGED procs
         [] req.kind = "delete" ->
            IF ~ok
            THEN /\ resp' = Respond(route, req, 500, "Error", <<"handler", "db.select">>)
                 /\ UNCHANGED <<files, procs>>
            ELSE IF SelectById(req.id) = {}
            THEN /\ resp' = Respond(route, req, 404, "NotFound", <<"handler", "db.select">>)
                 /\ UNCHANGED <<files, procs>>
            ELSE /\ \E fileMetadata \in SelectById(req.id) :
                     procs' = [procs EXCEPT ![p] =
                        [Idle EXCEPT !.pc = "r2.delete", !.route = route, !.req = req,
                                     !.row = fileMetadata, !.t = now,
                                     !.trace = <<"handler", "db.select">>]]
                 /\ resp' = NoResp
                 /\ UNCHANGED files
    /\ UNCHANGED <<now, bucket, usedIds, browser, dead>>

\* FILES_BUCKET.delete takes effect or throws
AdminDeleteObject(p, ok) ==
    LET q == procs[p] IN
    /\ q.pc = "r2.delete"
    /\ IF ok
       THEN /\ bucket' = BucketDelete(r2ObjectKey(q.req.id, q.row.original_filename))
            /\ procs' = [procs EXCEPT ![p] =
                   [q EXCEPT !.pc = "db.delete", !.trace = Append(q.trace, "r2.delete")]]
            /\ resp' = NoResp
       ELSE /\ bucket' = bucket
            /\ procs' = [procs EXCEPT ![p] = Idle]
            /\ resp' = Respond(q.route, q.req, 500, "Error", Append(q.trace, "r2.delete"))
    /\ UNCHANGED <<now, files, usedIds, browser, dead>>

\* DELETE FROM files WHERE id = ? takes effect or throws
AdminDeleteRow(p, ok) ==
    LET q == procs[p] IN
    /\ q.pc = "db.delete"
    /\ IF ok
       THEN /\ files' = files \ SelectById(q.req.id)
            /\ dead' = dead \cup {r.short_url_slug : r \in SelectById(q.req.id)}
            /\ resp' = [Respond(q.route, q.req, 200, "Deleted",
                                Append(q.trace, "db.delete")) EXCEPT !.row = q.row]
       ELSE /\ files' = files
            /\ dead' = dead
            /\ resp' = Respond(q.route, q.req, 500, "Error", Append(q.trace, "db.delete"))
    /\ procs' = [procs EXCEPT ![p] = Idle]
    /\ UNCHANGED <<now, bucket, usedIds, browser>>

----------------------------------------------------------------------------
(* POST /api/finalize-upload                                                *)

\* s.split(sep): the pieces of s between the separators
RECURSIVE Split(_, _)
Split(s, sep) ==
    LET i == IndexOf(s, sep, 1) IN
    IF i = 0 THEN <<s>>
    ELSE <<SubSeq(s, 1, i - 1)>> \o Split(SubSeq(s, i + 1, Len(s)), sep)

\* the columns the INSERT of finalize-upload names
FinalizeColumns ==
    {"id", "original_filename", "mime_type", "file_size", "short_url_slug", "is_private",
     "passcode_hash", "expiry_timestamp", "uploaded_at"}

\* the metadata of a direct upload is checked and inserted
FinalizeUpload(body, shortUrlSlug, ok) ==
    LET route == "/api/finalize-upload"
        pieces == Split(body.r2ObjectKey, "/")
        fileId == Split(pieces[2], "-")[1]
        row == [id |-> fileId, short_url_slug |-> shortUrlSlug,
                original_filename |-> body.originalFilename, mime_type |-> body.mimeType,
                file_size |-> body.fileSize, upload_timestamp |-> now,
                expiry_timestamp |-> ExpiryTimestamp(body.expiryDays, now),
                passcode_hash |-> IF body.isPrivate /\ Truthy(body.passcode)
                                  THEN hashPasscode(body.passcode) ELSE NullHash,
                is_private |-> IF body.isPrivate THEN 1 ELSE 0]
    IN
    /\ IF ~Truthy(body.r2ObjectKey) \/ ~Truthy(body.originalFilename)
          \/ body.mimeType = "" \/ body.fileSize < 0
       THEN /\ resp' = Respond(route, body, 400, "ValidationError", <<>>)
            /\ files' = files
       ELSE IF body.isPrivate /\ ~Truthy(body.passcode)
       THEN /\ resp' = [Respond(route, body, 400, "ValidationError", <<>>) EXCEPT
                           !.out = <<"Passcode is required for private files.">>]
            /\ files' = files
       ELSE IF Len(pieces) < 2
       THEN /\ resp' = Respond(route, body, 500, "Error", <<>>)
            /\ files' = files
       ELSE IF ok /\ InsertAccepted(FinalizeColumns, row)
       THEN /\ files' = files \cup {row}
            /\ resp' = [Respond(route, body, 200, "Created", <<"db.insert">>) EXCEPT
                        !.out = [shortUrlSlug |-> shortUrlSlug,
                                 originalFilename |-> body.originalFilename,
                                 isPrivate |-> body.isPrivate,
                                 expiryTimestamp |-> row.expiry_timestamp]]
       ELSE /\ files' = files
            /\ resp' = Respond(route, body, 500, "Error", <<"db.insert">>)
    /\ UNCHANGED <<now, bucket, usedIds, procs, browser, dead>>

\* JSON bodies of POST /api/finalize-upload; fileSize -1 stands for a value
\* that is not a number
FinalizeBodies ==
    {[r2ObjectKey |-> k, originalFilename |-> <<"a.txt">>, mimeType |-> "text/plain",
      fileSize |-> n, isPrivate |-> ip, passcode |-> pc, expiryDays |-> <<>>] :
        k \in {r2ObjectKey(UUIDs[3], <<"a.txt">>)}, n \in {1}, ip \in BOOLEAN,
        pc \in {<<>>, PassA}}
    \cup
    {[r2ObjectKey |-> k, originalFilename |-> <<"a.txt">>, mimeType |-> "text/plain",
      fileSize |-> n, isPrivate |-> FALSE, passcode |-> <<>>, expiryDays |-> <<>>] :
        k \in {<<"nokey">>, <<>>}, n \in {1, -1}}

\* POST /api/get-presigned-upload-url: the body is checked, an id drawn, and
\* FILES_BUCKET.put(key, null) called; the put stores an empty object or
\* throws, and reading .upload.url of its result throws: 500 either way
PresignUpload(body, maxIds, ok) ==
    LET route == "/api/get-presigned-upload-url"
        key == r2ObjectKey(uuidv4(usedIds), body.fileName)
    IN
    /\ IF ~Truthy(body.fileName) \/ body.fileType = "" \/ body.fileSize < 0
       THEN /\ resp' = Respond(route, body, 400, "ValidationError", <<>>)
            /\ UNCHANGED <<bucket, usedIds>>
       ELSE /\ usedIds < maxIds
            /\ usedIds < Len(UUIDs)
            /\ usedIds' = usedIds + 1
            /\ bucket' = IF ok THEN BucketPut(key, <<>>) ELSE bucket
            /\ resp' = Respond(route, body, 500, "Error", <<"r2.put">>)
    /\ UNCHANGED <<now, files, procs, browser, dead>>

\* JSON bodies of POST /api/get-presigned-upload-url; fileSize -1 stands for
\* a value that is not a number
PresignBodies ==
    {[fileName |-> <<"a.txt">>, fileType |-> "text/plain", fileSize |-> n] : n \in {1, -1}}

----------------------------------------------------------------------------
(* Clock                                                                    *)

Tick(t) ==
    /\ t > now
    /\ now' = t
    /\ resp' = NoResp
    /\ UNCHANGED <<files, bucket, usedIds, procs, browser, dead>>

----------------------------------------------------------------------------
(* The registry: uploads on both paths and admin requests, one at a time    *)

MaxFiles == 2

Init ==
    /\ now = StartTime
    /\ files = {}
    /\ bucket = <<>>
    /\ usedIds = 0
    /\ procs = [p \in {"p1", "p2"} |-> Idle]
    /\ resp = NoResp
    /\ browser = BrowserInit
    /\ dead = {}

AdminToken(role, exp) ==
    SignedToken(JWT_SECRET_KEY,
        [userId |-> "1", username |-> <<"root">>, role |-> role, exp |-> exp])

RegistryForms ==
    {FileForm(<<7>>, pc, Absent, ip) : pc \in {Absent, <<>>, PassA}, ip \in BOOLEAN}
    \cup {NoFileForm(k) : k \in {"absent", "string"}}

\* list, update and delete with a valid admin token; each with no header and
\* with a non-admin token
RegistryAdminReqs ==
    LET good == AdminToken("admin", StartTime + DayMs)
        bad  == {<<>>, AdminToken("user", StartTime + DayMs)}
    IN
    {AdminReq("list", h, <<>>, "undefined", <<>>, <<>>) : h \in bad \cup {good}}
    \cup {AdminReq("update", h, uuidv4(0), "true", <<>>, <<>>) : h \in bad}
    \cup {AdminReq("update", good, uuidv4(i), v, <<>>, <<>>) :
            i \in 0..(MaxFiles - 1), v \in {"undefined", "true", "false"}}
    \cup {AdminReq("delete", h, uuidv4(0), "undefined", <<>>, <<>>) : h \in bad}
    \cup {AdminReq("delete", good, uuidv4(i), "undefined", <<>>, <<>>) :
            i \in 0..(MaxFiles - 1)}

Next ==
    \/ \E form \in RegistryForms : UploadStart("p1", form, MaxFiles)
    \/ \E slug \in Slugs : UploadSlug("p1", slug)
    \/ \E ok \in BOOLEAN : UploadPut("p1", ok)
    \/ \E ok \in BOOLEAN : UploadInsert("p1", ok)
    \/ \E body \in FinalizeBodies, slug \in Slugs : FinalizeUpload(body, slug, TRUE)
    \/ \E body \in PresignBodies, ok \in BOOLEAN : PresignUpload(body, MaxFiles, ok)
    \/ \E req \in RegistryAdminReqs : AdminRequest("p1", req, TRUE)
    \/ \E ok \in BOOLEAN : AdminDeleteObject("p1", ok)
    \/ \E ok \in BOOLEAN : AdminDeleteRow("p1", ok)

Spec == Init /\ [][Next]_vars

----------------------------------------------------------------------------
(* Retrieval: one record, the three retrieval routes, the clock             *)

GateForms ==
    {FileForm(<<7>>, pc, d, ip) : pc \in {Absent, PassA}, d \in {Absent, <<"1">>},
                                  ip \in BOOLEAN}

NextGate ==
    \/ \E form \in GateForms : UploadStart("p1", form, 1)
    \/ \E slug \in Slugs : UploadSlug("p1", slug)
    \/ UploadPut("p1", TRUE)
    \/ UploadInsert("p1", TRUE)
    \/ \E url \in RetrievalUrls({"/f/", "/api/d/", "/s/"}) :
            RetrieveStart("p1", ParseUrl(url).path[1], url, FALSE, TRUE)
    \/ \E ok \in BOOLEAN : RetrieveGet("p1", ok)
    \/ \E t \in {StartTime + DayMs, StartTime + DayMs + 1} : Tick(t)

SpecGate == Init /\ [][NextGate]_vars

----------------------------------------------------------------------------
(* Properties of retrieval                                                  *)

RetrievalRoutes == {"/f/", "/api/d/", "/s/"}

\* the record is past its expiry at clock value t
PastExpiry(row, t) == row.expiry_timestamp # NullTs /\ t > row.expiry_timestamp

\* the location is the passcode prompt of the frontend
IsPrompt(loc) ==
    loc # <<>> /\
    LET u == ParseUrl(loc) IN
    /\ u.path = <<"/">>
    /\ SearchParamsGet(u.query, <<"promptDownload">>) = <<"true">>

\* the location is the ad screen of the frontend
IsInterstitial(loc) ==
    loc # <<>> /\
    LET u == ParseUrl(loc) IN
    /\ u.path = <<"/">>
    /\ SearchParamsGet(u.query, <<"showAd">>) = <<"true">>
    /\ Truthy(SearchParamsGet(u.query, <<"downloadUrl">>))

\* C1: a retrieval of a private record that is not past its expiry is
\* Granted (200 once the object is read) with the passcode whose hash is the
\* stored passcode_hash, PasscodeRequired (401, on /s/ the prompt) with no
\* passcode, and PasscodeInvalid (403, on /s/ the prompt) with any other one.
C1_PrivatePasscodeOutcome ==
    (/\ resp.route \in RetrievalRoutes
     /\ resp.row # NoRow
     /\ resp.row.is_private = 1
     /\ ~PastExpiry(resp.row, resp.at))
    =>
    LET providedPasscode == ReqQuery(resp.req, "passcode")
        json == resp.route # "/s/"
    IN
    /\ ~Truthy(providedPasscode) =>
            /\ resp.decision = "PasscodeRequired"
            /\ IF json THEN resp.status = 401 ELSE IsPrompt(resp.location)
    /\ (Truthy(providedPasscode) /\ hashString(providedPasscode) = resp.row.passcode_hash) =>
            /\ resp.decision = "Granted"
            /\ resp.out = <<>> => resp.status = 200
    /\ (Truthy(providedPasscode) /\ hashString(providedPasscode) # resp.row.passcode_hash) =>
            /\ resp.decision = "PasscodeInvalid"
            /\ IF json THEN resp.status = 403 ELSE IsPrompt(resp.location)

C1_Witness ==
    /\ resp.route = "/f/"
    /\ resp.row.is_private = 1
    /\ resp.row.passcode_hash = hashString(PassA)
    /\ ReqQuery(resp.req, "passcode") = PassA
    /\ resp.status = 200

\* C2: a retrieval of a record whose expiry is set and passed is Expired
\* (410, on /s/ a redirect with an error) whatever is_private and the
\* passcode are, after the one metadata read and nothing else; a record
\* whose expiry is not passed is never reported Expired.
C2_ExpiryTerminal ==
    (resp.route \in RetrievalRoutes /\ resp.row # NoRow)
    =>
    /\ PastExpiry(resp.row, resp.at) =>
            /\ resp.decision = "Expired"
            /\ IF resp.route = "/s/"
               THEN resp.status = 302 /\ ~IsPrompt(resp.location)
               ELSE resp.status = 410
            /\ resp.trace = <<"db.select">>
    /\ resp.decision = "Expired" => PastExpiry(resp.row, resp.at)

C2_Witness ==
    /\ resp.route = "/api/d/"
    /\ resp.decision = "Expired"
    /\ resp.row.is_private = 1
    /\ hashString(ReqQuery(resp.req, "passcode")) = resp.row.passcode_hash
    /\ resp.at = resp.row.expiry_timestamp + 1

\* C3 (as claimed): an upload with isPrivate = true and an absent or empty
\* passcode, when no store call fails, is answered 400 and has made no store
\* call at all.
C3_PrivateUploadNeedsPasscode ==
    (/\ resp.route \in {"/api/upload", "/api/finalize-upload"}
     /\ resp.req.isPrivate
     /\ ~Truthy(resp.req.passcode)
     /\ resp.decision \notin {"StorageUnavailable", "Error"})
    => (resp.status = 400 /\ resp.trace = <<>>)

\* C4 (as claimed): every row has a passcode_hash exactly if it is private.
C4_HashIffPrivate ==
    \A r \in files : (r.passcode_hash # NullHash) <=> (r.is_private = 1)

\* C5: /s/ answers a request without ad=seen by a redirect to the ad screen
\* whose downloadUrl parameter is the whole request URL, and never answers a
\* request with ad=seen by a redirect to the ad screen.
C5_GateRedirect ==
    resp.route = "/s/" =>
        IF ReqQuery(resp.req, "ad") # <<"seen">>
        THEN /\ resp.status = 302
             /\ IsInterstitial(resp.location)
             /\ SearchParamsGet(ParseUrl(resp.location).query, <<"downloadUrl">>) = resp.req
             /\ resp.trace = <<>>
        ELSE ~IsInterstitial(resp.location)

C5_Witness ==
    /\ resp.route = "/s/"
    /\ ReqQuery(resp.req, "passcode") = PassB
    /\ ReqQuery(resp.req, "ad") = Absent
    /\ IsInterstitial(resp.location)

\* C6 (as claimed): on every retrieval route, a response that carries file
\* bytes answers a request that carries ad=seen.
C6_AllRoutesGated ==
    (resp.route \in RetrievalRoutes /\ resp.status = 200)
        => ReqQuery(resp.req, "ad") = <<"seen">>

----------------------------------------------------------------------------
(* The admin surface: one record, login, list, update, delete, the clock    *)

AdminForms ==
    {FileForm(<<7>>, Absent, Absent, FALSE), FileForm(<<7>>, PassA, Absent, TRUE)}

\* the payloads and tokens a client can send in X-Admin-Auth
AdminPayload == [userId |-> "1", username |-> <<"root">>, role |-> "admin",
                 exp |-> StartTime + TokenMinutes * 60 * 1000]
UserPayload == [AdminPayload EXCEPT !.userId = "2", !.username = <<"bob">>, !.role = "user"]

AdminHeaders ==
    {<<>>,
     SignedToken(JWT_SECRET_KEY, AdminPayload),
     SignedToken(JWT_SECRET_KEY, UserPayload),
     SignedToken("another key", AdminPayload),
     <<HeaderPart, PayloadPart(AdminPayload), Hmac(JWT_SECRET_KEY, HeaderPart.hdr, UserPayload)>>,
     <<HeaderPart, JunkPart, Hmac(JWT_SECRET_KEY, HeaderPart.hdr, NoPayload)>>,
     <<HeaderPart, PayloadPart(AdminPayload)>>}

AdminReqs ==
    {AdminReq("login", h, <<>>, "undefined", u, pw) :
        h \in {<<>>, SignedToken(JWT_SECRET_KEY, AdminPayload)},
        u \in {<<>>, <<"root">>, <<"bob">>, <<"eve">>},
        pw \in {<<"rootpw">>, <<"bobpw">>}}
    \cup {AdminReq("list", h, <<>>, "undefined", <<>>, <<>>) : h \in AdminHeaders}
    \cup {AdminReq("update", h, uuidv4(0), v, <<>>, <<>>) :
            h \in AdminHeaders, v \in {"undefined", "true", "false"}}
    \cup {AdminReq("delete", h, uuidv4(i), "undefined", <<>>, <<>>) :
            h \in AdminHeaders, i \in 0..1}

\* the client sends the token of the login response it has just got
AdminListWithIssuedToken ==
    /\ resp.route = AdminRoute("login")
    /\ resp.status = 200
    /\ AdminRequest("p1", AdminReq("list", resp.out, <<>>, "undefined", <<>>, <<>>), TRUE)

NextAdmin ==
    \/ \E form \in AdminForms : UploadStart("p1", form, 1)
    \/ UploadSlug("p1", "s1")
    \/ UploadPut("p1", TRUE)
    \/ UploadInsert("p1", TRUE)
    \/ \E req \in AdminReqs, ok \in BOOLEAN : AdminRequest("p1", req, ok)
    \/ AdminListWithIssuedToken
    \/ \E ok \in BOOLEAN : AdminDeleteObject("p1", ok)
    \/ \E ok \in BOOLEAN : AdminDeleteRow("p1", ok)
    \/ \E t \in {AdminPayload.exp, AdminPayload.exp + 1} : Tick(t)

SpecAdmin == Init /\ [][NextAdmin]_vars

----------------------------------------------------------------------------
(* Properties of the admin surface                                          *)

GuardedRoutes == {AdminRoute("list"), AdminRoute("update"), AdminRoute("delete")}

\* C9 (as claimed): a login request without a token is answered 401 for a
\* wrong password, 403 for the right password of a user who is not an admin,
\* and 200 with a token that passes the middleware for the right password of
\* an admin.
C9_LoginOutcomes ==
    (/\ resp.route = AdminRoute("login")
     /\ resp.req.header = <<>>
     /\ resp.status # 500
     /\ \E u \in USER_DB : u.username = resp.req.username)
    =>
    LET user == CHOOSE u \in USER_DB : u.username = resp.req.username IN
    IF hashString(resp.req.password) # user.password_hash THEN resp.status = 401
    ELSE IF user.role # "admin" THEN resp.status = 403
    ELSE resp.status = 200 /\ AdminAuth(resp.out, now) = 0

\* C10: a step of list, update or delete on a request whose token
\* verifyToken does not accept with role admin changes neither the table nor
\* the bucket, starts no handler, and answers 401 for a missing header or a
\* token that fails verification and 403 for a verified token of another role.
C10_AdminGuard ==
    [][LET q == procs["p1"]
           inFlight == q.pc \in {"r2.delete", "db.delete"}
           starts == q.pc = "idle" /\ procs'["p1"].pc = "r2.delete"
           answers == q.pc = "idle" /\ resp'.route \in GuardedRoutes
           req == IF inFlight THEN q.req
                  ELSE IF starts THEN procs'["p1"].req ELSE resp'.req
           t == IF inFlight THEN q.t ELSE now
           payload == IF req.header = <<>> THEN NoPayload ELSE verifyToken(req.header, t)
       IN
       ((inFlight \/ starts \/ answers) /\ ~(payload # NoPayload /\ payload.role = "admin"))
       =>
       /\ files' = files
       /\ bucket' = bucket
       /\ procs' = procs
       /\ resp'.trace = <<>>
       /\ resp'.status = IF payload = NoPayload THEN 401 ELSE 403
    ]_vars

C10_Witness ==
    /\ resp.route = AdminRoute("delete")
    /\ resp.status = 401
    /\ resp.req.header = SignedToken(JWT_SECRET_KEY, AdminPayload)
    /\ SelectById(resp.req.id) # {}

----------------------------------------------------------------------------
(* The browser: navigation, App.jsx handlers, AdScreen.js, download-proxy   *)

MaxAds == 2

\* the user opens a link in a fresh tab
BrowserOpen(url) ==
    /\ browser.page = "blank"
    /\ browser.nav = <<>>
    /\ browser' = [browser EXCEPT !.nav = url, !.sent = FALSE]
    /\ resp' = NoResp
    /\ UNCHANGED <<now, files, bucket, usedIds, procs, dead>>

\* DownloadProxy that takes only a request without the url parameter for
\* incomplete
DownloadProxy_AbsentOnly ==
    LET url == ParseUrl(browser.nav)
        originalDownloadUrl == SearchParamsGet(url.query, <<"url">>)
        q1 == SearchParamsSet(<<>>, <<"showAd">>, <<"true">>)
        q2 == SearchParamsSet(q1, <<"downloadUrl">>, originalDownloadUrl)
        r == Respond("/download-proxy", browser.nav, 302, "", <<>>)
    IN
    /\ browser.nav # <<>>
    /\ ~browser.sent
    /\ url.path = <<"/download-proxy">>
    /\ resp' = IF originalDownloadUrl = Absent
               THEN [r EXCEPT !.location = ErrorRedirect("Download link is incomplete.")]
               ELSE [r EXCEPT !.location =
                        UrlToString([origin |-> url.origin, path |-> <<>>, query |-> q2])]
    /\ browser' = BrowserAfter(browser, resp')
    /\ UNCHANGED <<now, files, bucket, usedIds, procs, dead>>

\* onRequestGet of download-proxy.js answers the navigation of the browser
DownloadProxy ==
    LET url == ParseUrl(browser.nav)
        originalDownloadUrl == SearchParamsGet(url.query, <<"url">>)
        q1 == SearchParamsSet(<<>>, <<"showAd">>, <<"true">>)
        q2 == SearchParamsSet(q1, <<"downloadUrl">>, originalDownloadUrl)
        r == Respond("/download-proxy", browser.nav, 302, "", <<>>)
    IN
    /\ browser.nav # <<>>
    /\ ~browser.sent
    /\ url.path = <<"/download-proxy">>
    /\ resp' = IF ~Truthy(originalDownloadUrl)
               THEN [r EXCEPT !.location = ErrorRedirect("Download link is incomplete.")]
               ELSE [r EXCEPT !.location =
                        UrlToString([origin |-> url.origin, path |-> <<>>, query |-> q2])]
    /\ browser' = BrowserAfter(browser, resp')
    /\ UNCHANGED <<now, files, bucket, usedIds, procs, dead>>

\* AppCountdownTick that navigates to the download URL as it was given
AppCountdownTick_NoMarker ==
    LET b == browser
        count == b.adScreenCountdown - 1
    IN
    /\ b.page = "app"
    /\ b.showAdScreen
    /\ b.timer
    /\ b.adScreenCountdown > 0
    /\ browser' =
        IF count > 0 THEN [b EXCEPT !.adScreenCountdown = count]
        ELSE [b EXCEPT !.adScreenCountdown = count, !.timer = FALSE, !.sent = FALSE,
                       !.nav = b.adScreenDownloadUrl]
    /\ resp' = NoResp
    /\ UNCHANGED <<now, files, bucket, usedIds, procs, dead>>

\* the interval of App's countdown effect fires, and the effect runs again on
\* the new count: it arms the next interval, or at 0 sets window.location.href
\* to the download URL with ad=seen; new URL() throws on a URL that is not
\* absolute and the app is gone
AppCountdownTick ==
    LET b == browser
        count == b.adScreenCountdown - 1
        finalDownloadUrl == ParseUrl(b.adScreenDownloadUrl)
    IN
    /\ b.page = "app"
    /\ b.showAdScreen
    /\ b.timer
    /\ b.adScreenCountdown > 0
    /\ browser' =
        IF count > 0 THEN [b EXCEPT !.adScreenCountdown = count]
        ELSE IF ~Truthy(b.adScreenDownloadUrl)
        THEN [b EXCEPT !.adScreenCountdown = count, !.timer = FALSE,
                       !.showAdScreen = FALSE]
        ELSE IF ~IsAbsoluteUrl(b.adScreenDownloadUrl)
        THEN [b EXCEPT !.adScreenCountdown = count, !.timer = FALSE, !.page = "error"]
        ELSE [b EXCEPT !.adScreenCountdown = count, !.timer = FALSE, !.sent = FALSE,
                       !.nav = UrlToString([finalDownloadUrl EXCEPT !.query =
                            SearchParamsSet(finalDownloadUrl.query, <<"ad">>, <<"seen">>)])]
    /\ resp' = NoResp
    /\ UNCHANGED <<now, files, bucket, usedIds, procs, dead>>

\* the user types into the passcode field of the prompt
TypePasscode(passcode) ==
    /\ browser.page = "app"
    /\ browser.showDownloadPrompt
    /\ browser.nav = <<>>
    /\ browser.downloadPasscode # passcode
    /\ browser' = [browser EXCEPT !.downloadPasscode = passcode]
    /\ resp' = NoResp
    /\ UNCHANGED <<now, files, bucket, usedIds, procs, dead>>

\* handleDownload of App.jsx
handleDownload ==
    LET b == browser
        originalDownloadUrl ==
            <<"https://file.myozarniaung.com", "/s/">> \o b.downloadSlug
            \o (IF Truthy(b.downloadPasscode)
                THEN <<"?", "passcode", "=">> \o encodeURIComponent(b.downloadPasscode)
                ELSE <<>>)
    IN
    /\ b.page = "app"
    /\ ~b.showAdScreen
    /\ b.nav = <<>>
    /\ b.adsShown < MaxAds
    /\ browser' =
        IF ~Truthy(b.downloadSlug)
        THEN [b EXCEPT !.errorMessage = <<"Please enter a short URL slug for download.">>]
        ELSE [b EXCEPT !.errorMessage = <<>>, !.nav = originalDownloadUrl, !.sent = FALSE]
    /\ browser' # browser
    /\ resp' = NoResp
    /\ UNCHANGED <<now, files, bucket, usedIds, procs, dead>>

\* the AdScreen component (first version with useCountdown, second version
\* with its own interval) is rendered at a location
AdScreenMount(version, loc) ==
    LET downloadUrl == SearchParamsGet(ParseUrl(loc).query, <<"downloadUrl">>) IN
    /\ browser.page = "blank"
    /\ browser.nav = <<>>
    /\ browser' =
        IF ~Truthy(downloadUrl)
        THEN [BrowserInit EXCEPT !.page = "app", !.location = <<Origin, "/">>]
        ELSE [BrowserInit EXCEPT !.page = version, !.location = loc,
                                 !.adScreenDownloadUrl = downloadUrl,
                                 !.adScreenCountdown = CountdownStart, !.timer = TRUE,
                                 !.adsShown = 1]
    /\ resp' = NoResp
    /\ UNCHANGED <<now, files, bucket, usedIds, procs, dead>>

\* the interval of useCountdown fires and its effect runs on the new count:
\* at 0 handleCountdownComplete sets window.location.href to downloadUrl
AdScreenTick1 ==
    LET b == browser
        countdown == b.adScreenCountdown - 1
    IN
    /\ b.page = "AdScreen.1"
    /\ b.timer
    /\ browser' =
        IF countdown <= 0
        THEN [b EXCEPT !.adScreenCountdown = countdown, !.timer = FALSE, !.sent = FALSE,
                       !.nav = b.adScreenDownloadUrl]
        ELSE [b EXCEPT !.adScreenCountdown = countdown]
    /\ resp' = NoResp
    /\ UNCHANGED <<now, files, bucket, usedIds, procs, dead>>

\* the interval of the second version fires: at a count of 1 or less it
\* clears itself and sets window.location.href to downloadUrl
AdScreenTick2 ==
    LET b == browser
        prevCountdown == b.adScreenCountdown
    IN
    /\ b.page = "AdScreen.2"
    /\ b.timer
    /\ browser' =
        IF prevCountdown <= 1
        THEN [b EXCEPT !.adScreenCountdown = 0, !.timer = FALSE, !.sent = FALSE,
                       !.nav = b.adScreenDownloadUrl]
        ELSE [b EXCEPT !.adScreenCountdown = prevCountdown - 1]
    /\ resp' = NoResp
    /\ UNCHANGED <<now, files, bucket, usedIds, procs, dead>>

----------------------------------------------------------------------------
(* The client: one record, a browser on short links and the download proxy  *)

ClientForms ==
    {FileForm(<<7>>, Absent, Absent, FALSE), FileForm(<<7>>, PassA, Absent, TRUE)}

\* the short links a user is given, bare or with a passcode
ShortLinks ==
    {RetrievalUrl("/s/", "s1", q) :
        q \in {<<>>, <<[k |-> <<"passcode">>, v |-> PassB]>>}}

\* the links a user opens: short links, and the download proxy with a short
\* link, with a link relative to the site, with an empty url parameter and
\* without the url parameter
ClientLinks ==
    ShortLinks
    \cup {UrlToString([origin |-> Origin, path |-> <<"/download-proxy">>,
                       query |-> <<[k |-> <<"url">>, v |-> u]>>]) :
            u \in {RetrievalUrl("/s/", "s1", <<>>), <<"/s/", "s1">>}}
    \cup {<<Origin, "/download-proxy">>, <<Origin, "/download-proxy", "?", "url", "=">>}

NextClient ==
    \/ \E form \in ClientForms : UploadStart("p1", form, 1)
    \/ UploadSlug("p1", "s1")
    \/ UploadPut("p1", TRUE)
    \/ UploadInsert("p1", TRUE)
    \/ \E url \in ClientLinks : BrowserOpen(url)
    \/ /\ browser.nav # <<>>
       /\ ParseUrl(browser.nav).path[1] = "/s/"
       /\ RetrieveStart("p1", "/s/", browser.nav, TRUE, TRUE)
    \/ RetrieveGet("p1", TRUE)
    \/ DownloadProxy
    \/ AppCountdownTick
    \/ \E passcode \in {PassA, PassB} : TypePasscode(passcode)
    \/ handleDownload
    \/ \E version \in {"AdScreen.1", "AdScreen.2"}, url \in ShortLinks :
            AdScreenMount(version, AdScreenRedirectUrl(url))
    \/ AdScreenTick1
    \/ AdScreenTick2

SpecClient == Init /\ [][NextClient]_vars

----------------------------------------------------------------------------
(* Properties of the client                                                 *)

\* C7 (as claimed): the request the client issues from the passcode prompt
\* once a passcode is entered carries ad=seen again; the server shows the
\* prompt only in answer to a request with ad=seen.
C7_MarkerKeptAcrossPrompt ==
    [][(/\ browser.showDownloadPrompt
        /\ Truthy(browser.downloadPasscode)
        /\ browser.nav = <<>>
        /\ browser'.nav # <<>>)
       => ReqQuery(browser'.nav, "ad") = <<"seen">>]_vars

\* C8 (as claimed): the step in which the countdown of an ad screen shown
\* with a downloadUrl ends navigates to that URL with ad=seen added and its
\* slug and passcode unchanged.
C8_CountdownNavigatesWithMarker ==
    [][(/\ browser.timer
        /\ Truthy(browser.adScreenDownloadUrl)
        /\ browser.adScreenCountdown = 1
        /\ browser'.adScreenCountdown = 0)
       => /\ browser'.nav # <<>>
          /\ ReqQuery(browser'.nav, "ad") = <<"seen">>
          /\ ReqSlug(browser'.nav) = ReqSlug(browser.adScreenDownloadUrl)
          /\ ReqQuery(browser'.nav, "passcode")
                = ReqQuery(browser.adScreenDownloadUrl, "passcode")]_vars

----------------------------------------------------------------------------
(* Properties of tokens and login                                           *)

AdminRoutes == GuardedRoutes \cup {AdminRoute("login")}

\* the third part of the token is the HMAC of its first two under the secret
SignedUnderSecret(token) ==
    /\ token[3].kind = "sig"
    /\ token[3].key = JWT_SECRET_KEY
    /\ token[3].hdr = token[1].hdr
    /\ token[3].payload = token[2].payload

\* C11: on the token of an admin request, verifyToken returns null when the
\* token has not three parts, when its signature is not the HMAC of its
\* header and payload under the secret, and when its exp is earlier than
\* now; it returns the payload only when the token has three parts, is so
\* signed and has exp >= now; the middleware answers 401 only on null.
C11_VerifyTokenChecks ==
    (resp.route \in AdminRoutes /\ resp.req.header # <<>>)
    =>
    LET token == resp.req.header
        payload == verifyToken(token, now)
    IN
    /\ Len(token) # 3 => payload = NoPayload
    /\ (Len(token) = 3 /\ ~SignedUnderSecret(token)) => payload = NoPayload
    /\ (Len(token) = 3 /\ token[2].kind = "payload" /\ token[2].payload.exp < now)
            => payload = NoPayload
    /\ payload # NoPayload =>
            /\ Len(token) = 3
            /\ SignedUnderSecret(token)
            /\ token[2].payload.exp >= now
            /\ payload = token[2].payload
    /\ (resp.decision = "AuthFailed" /\ resp.status = 401) => payload = NoPayload

C11_Witness ==
    /\ resp.route = AdminRoute("list")
    /\ resp.req.header = SignedToken(JWT_SECRET_KEY, AdminPayload)
    /\ SignedUnderSecret(resp.req.header)
    /\ now = AdminPayload.exp + 1
    /\ resp.status = 401

\* C12: a token issued by login has exp = now + 30 minutes; the token issued
\* at the start is accepted at every now up to its exp and rejected later,
\* whatever the table and the bucket hold.
C12_TokenLifetime ==
    LET issued == generateToken("1", <<"root">>, "admin", 30, StartTime)
        expiry == StartTime + 30 * 60 * 1000
    IN
    /\ (resp.route = AdminRoute("login") /\ resp.status = 200)
            => resp.out[2].payload.exp = now + 30 * 60 * 1000
    /\ (verifyToken(issued, now) # NoPayload) <=> (now <= expiry)
    /\ (resp.route \in AdminRoutes /\ resp.req.header = issued) =>
            /\ now <= expiry => resp.decision # "AuthFailed"
            /\ (now > expiry /\ resp.route \in {AdminRoute("list"), AdminRoute("update")})
                    => (resp.decision = "AuthFailed" /\ resp.status = 401)

C12_Witness ==
    /\ resp.route = AdminRoute("list")
    /\ resp.req.header = generateToken("1", <<"root">>, "admin", 30, StartTime)
    /\ now = StartTime + 30 * 60 * 1000
    /\ resp.status = 200
    /\ files # {}

\* C13: an admin request whose token verifies with a role other than admin
\* is answered 403 by the middleware, and no handler runs.
C13_NonAdminForbidden ==
    (/\ resp.route \in AdminRoutes
     /\ resp.req.header # <<>>
     /\ verifyToken(resp.req.header, now) # NoPayload
     /\ verifyToken(resp.req.header, now).role # "admin")
    => (resp.status = 403 /\ resp.decision = "AuthFailed" /\ resp.trace = <<>>)

C13_Witness ==
    /\ resp.route = AdminRoute("delete")
    /\ resp.req.header = SignedToken(JWT_SECRET_KEY, UserPayload)
    /\ SelectById(resp.req.id) # {}
    /\ resp.status = 403

\* the response to a login request in the current state
LoginResponse(req) ==
    LET code == AdminAuth(req.header, now) IN
    IF code # 0 THEN AuthReply(req, code) ELSE LoginReply(req, now)

\* C14: the response to a login with an unknown username and the response
\* to a login, in the same state and with the same header, with a known
\* username and a wrong password have the same status and the same body.
C14_LoginNoReveal ==
    (/\ resp.route = AdminRoute("login")
     /\ resp.status # 500
     /\ Truthy(resp.req.username)
     /\ Truthy(resp.req.password)
     /\ \A u \in USER_DB : u.username # resp.req.username)
    =>
    \A u \in USER_DB, pw \in {<<"rootpw">>, <<"bobpw">>} :
        hashString(pw) # u.password_hash =>
            LET other == LoginResponse([resp.req EXCEPT !.username = u.username,
                                                        !.password = pw])
            IN other.status = resp.status /\ other.out = resp.out

C14_Witness ==
    /\ resp.route = AdminRoute("login")
    /\ resp.req.username = <<"eve">>
    /\ resp.trace = <<"handler", "users.select">>
    /\ resp.status = 401

----------------------------------------------------------------------------
(* Concurrent uploads: two requests in flight, on both upload paths         *)

Procs == {"p1", "p2"}

RaceForms ==
    {FileForm(<<7>>, Absent, Absent, FALSE), FileForm(<<7>>, PassA, Absent, TRUE)}

RaceBodies ==
    {b \in FinalizeBodies : b.fileSize = 1 /\ Truthy(b.passcode) /\ Len(b.r2ObjectKey) > 1}

NextRace ==
    \/ \E p \in Procs, form \in RaceForms : UploadStart(p, form, MaxFiles)
    \/ \E p \in Procs, slug \in Slugs : UploadSlug(p, slug)
    \/ \E p \in Procs : UploadPut(p, TRUE)
    \/ \E p \in Procs : UploadInsert(p, TRUE)
    \/ \E body \in RaceBodies, slug \in Slugs : FinalizeUpload(body, slug, TRUE)

SpecRace == Init /\ [][NextRace]_vars

\* no two rows of the table have the same slug
UniqueSlugs(rows) ==
    \A r1, r2 \in rows : r1.short_url_slug = r2.short_url_slug => r1 = r2

\* C15: under any interleaving of two uploads in flight and finalize-upload
\* requests, no two rows of the table ever have the same slug, and the slug
\* an allocation returns is the slug of no row at that moment.
C15_SlugsUnique ==
    [][/\ UniqueSlugs(files')
       /\ \A p \in Procs :
            (procs[p].pc = "slug" /\ procs'[p].pc = "put")
                => SelectBySlug(procs'[p].row.short_url_slug) = {}]_vars

C15_Witness ==
    /\ procs["p1"].pc = "insert"
    /\ procs["p2"].pc = "idle"
    /\ \E r \in files :
         /\ r.short_url_slug = procs["p1"].row.short_url_slug
         /\ r.id # procs["p1"].row.id

----------------------------------------------------------------------------
(* Properties of the registry                                               *)

\* C16 (as claimed): no row of the table has the slug of a row that was
\* deleted before.
C16_SlugNeverRecycled ==
    \A r \in files : r.short_url_slug \notin dead

----------------------------------------------------------------------------
(* Slug allocation to exhaustion: one more upload than there are slugs;     *)
(* every handler goes on running, and a draw that can hit a free slug        *)
(* eventually does                                                           *)

AllocForms ==
    {FileForm(<<7>>, Absent, Absent, FALSE), FileForm(<<7>>, PassA, Absent, TRUE)}

\* the draw of generateShortUrlSlug hits a slug that is free
UploadSlugFree(p) ==
    \E slug \in Slugs : SelectBySlug(slug) = {} /\ UploadSlug(p, slug)

NextAlloc ==
    \/ \E form \in AllocForms : UploadStart("p1", form, Cardinality(Slugs) + 1)
    \/ \E slug \in Slugs : UploadSlug("p1", slug)
    \/ \E ok \in BOOLEAN : UploadPut("p1", ok)
    \/ UploadInsert("p1", TRUE)

SpecAlloc ==
    Init /\ [][NextAlloc]_vars /\ WF_vars(NextAlloc) /\ SF_vars(UploadSlugFree("p1"))

\* C17 (as claimed): an upload that is in the slug loop leaves it, with a
\* slug or with a failure.
C17_AllocationTerminates ==
    (procs["p1"].pc = "slug") ~> (procs["p1"].pc # "slug")


\* the store writes among the calls of a trace
IsWrite(call) == call \in {"r2.put", "db.insert", "r2.delete", "db.delete", "db.update"}

\* C18: a step of the /api/upload handler writes the object only before the insert and
\* without touching the table, and inserts one row only once the object is
\* in the bucket; a failed object write ends the request with 500 and no row;
\* a failed insert ends it with 500 and leaves the object in the bucket; a
\* created upload has made one object write, then one insert.
C18_PutThenInsert ==
    [][LET q == procs["p1"]
           key == r2ObjectKey(q.row.id, q.req.file.name)
       IN
       (q.route = "/api/upload" /\ procs'["p1"] # q) =>
         /\ q.pc = "slug" => (files' = files /\ bucket' = bucket)
         /\ q.pc = "put" =>
              /\ files' = files
              /\ IF key \in DOMAIN bucket'
                 THEN procs'["p1"].pc = "insert" /\ bucket'[key] = q.req.file.body
                 ELSE /\ procs'["p1"].pc = "idle"
                      /\ resp'.status = 500
                      /\ bucket' = bucket
         /\ q.pc = "insert" =>
              /\ key \in DOMAIN bucket
              /\ bucket' = bucket
              /\ \/ /\ files' = files \cup {q.row}
                    /\ q.row \notin files
                    /\ resp'.status = 200
                    /\ SelectSeq(resp'.trace, IsWrite) = <<"r2.put", "db.insert">>
                 \/ /\ files' = files
                    /\ resp'.status = 500
    ]_vars

C18_Witness ==
    /\ resp.route = "/api/upload"
    /\ resp.status = 500
    /\ resp.trace = <<"db.select", "r2.put", "db.insert">>
    /\ \E k \in DOMAIN bucket :
         \A r \in files : r2ObjectKey(r.id, r.original_filename) # k

\* C19 (as claimed): after an admin delete whose object delete failed, the
\* table has no row of the id.
C19_RowRemovedOnObjectFailure ==
    (/\ resp.route = AdminRoute("delete")
     /\ resp.trace = <<"handler", "db.select", "r2.delete">>)
    => SelectById(resp.req.id) = {}

\* C20: the admin delete handler removes the row only in a step after the step that
\* deleted the object at the derived key; once the row is removed no row has
\* its slug and the answer is 200; a delete of an id that has no row is
\* answered 404 and changes neither the table nor the bucket.
C20_DeleteOrder ==
    [][LET q == procs["p1"]
           key == r2ObjectKey(q.req.id, q.row.original_filename)
       IN
       /\ (q.pc = "r2.delete" /\ procs'["p1"] # q) =>
            /\ files' = files
            /\ procs'["p1"].pc = "db.delete" => key \notin DOMAIN bucket'
       /\ (q.pc = "db.delete" /\ procs'["p1"] # q) =>
            /\ key \notin DOMAIN bucket
            /\ bucket' = bucket
            /\ files' # files =>
                 /\ files' = files \ {q.row}
                 /\ \A r \in files' : r.short_url_slug # q.row.short_url_slug
                 /\ resp'.status = 200
       /\ (/\ q.pc = "idle"
           /\ resp'.route = AdminRoute("delete")
           /\ resp'.decision # "AuthFailed") =>
            /\ files' = files
            /\ bucket' = bucket
            /\ resp'.status = IF SelectById(resp'.req.id) = {} THEN 404 ELSE 500
       /\ (q.pc = "idle" /\ procs'["p1"].pc = "r2.delete") =>
            /\ SelectById(procs'["p1"].req.id) # {}
            /\ files' = files
            /\ bucket' = bucket
    ]_vars

C20_Witness ==
    /\ resp.route = AdminRoute("delete")
    /\ resp.status = 200
    /\ resp.trace = <<"handler", "db.select", "r2.delete", "db.delete">>
    /\ resp.row.short_url_slug = "s1"
    /\ SelectBySlug("s1") = {}
    /\ files # {}

----------------------------------------------------------------------------
(* Properties of the admin update                                           *)

\* C21 (as claimed): an admin update that is answered 200 addressed an id
\* that has a record.
C21_UpdateNotFound ==
    (resp.route = AdminRoute("update") /\ resp.status = 200)
    => SelectById(resp.req.id) # {}

\* the row with every column but is_private
FrameOfUpdate(r) == [r EXCEPT !.is_private = 0]

\* C22: a step that answers an admin update leaves the bucket alone, keeps
\* every row whose id is not the addressed one, and keeps every column but
\* is_private of the addressed row; and no step of any operation changes the
\* slug of a row that stays in the table.
C22_UpdateFrame ==
    [][/\ resp'.route = AdminRoute("update") =>
            /\ bucket' = bucket
            /\ {r \in files' : r.id # resp'.req.id} = {r \in files : r.id # resp'.req.id}
            /\ {FrameOfUpdate(r) : r \in files'} = {FrameOfUpdate(r) : r \in files}
            /\ Cardinality(files') = Cardinality(files)
       /\ \A r \in files : \A r2 \in files' :
            r2.id = r.id => r2.short_url_slug = r.short_url_slug
    ]_vars

C22_Witness ==
    /\ resp.route = AdminRoute("update")
    /\ resp.status = 200
    /\ resp.req.is_private = "true"
    /\ \E r \in SelectById(resp.req.id) :
         r.is_private = 1 /\ r.passcode_hash # NullHash
    /\ \E r \in files : r.id # resp.req.id /\ r.is_private = 0

----------------------------------------------------------------------------
(* Properties of the two stores                                             *)

\* the keys that retrieval derives from the rows of the table
DerivedKeys == {r2ObjectKey(r.id, r.original_filename) : r \in files}

\* C23 (as claimed): when no request is in flight the keys of the bucket are
\* the keys derived from the rows, one object for every row and no other.
C23_OneBlobPerRow ==
    (\A p \in DOMAIN procs : procs[p].pc = "idle") => DOMAIN bucket = DerivedKeys


\* the rows a step adds to the table under an id the table did not have
Inserted == {r \in files' : \A o \in files : o.id # r.id}

----------------------------------------------------------------------------
(* Upload, retrieval and admin delete side by side: uploads and retrievals  *)
(* on p1, deletes on p2                                                     *)

\* public uploads without expiry; the filename tells the bytes
RoundForms ==
    {FileForm(<<7>>, Absent, Absent, FALSE),
     [FileForm(<<7, 8>>, Absent, Absent, FALSE) EXCEPT !.file.name = <<"b.txt">>]}

\* the bytes uploaded under a filename
UploadedBody(name) == IF name = <<"b.txt">> THEN <<7, 8>> ELSE <<7>>

RoundDeletes ==
    {AdminReq("delete", AdminToken("admin", StartTime + DayMs), uuidv4(i), "undefined",
              <<>>, <<>>) : i \in 0..(MaxFiles - 1)}

RoundUrls == {RetrievalUrl("/f/", slug, <<>>) : slug \in Slugs}

NextRound ==
    \/ \E form \in RoundForms : UploadStart("p1", form, MaxFiles)
    \/ \E slug \in Slugs : UploadSlug("p1", slug)
    \/ UploadPut("p1", TRUE)
    \/ UploadInsert("p1", TRUE)
    \/ \E url \in RoundUrls : RetrieveStart("p1", "/f/", url, FALSE, TRUE)
    \/ RetrieveGet("p1", TRUE)
    \/ \E req \in RoundDeletes : AdminRequest("p2", req, TRUE)
    \/ AdminDeleteObject("p2", TRUE)
    \/ AdminDeleteRow("p2", TRUE)

SpecRound == Init /\ [][NextRound]_vars

\* an admin delete of the id has read its row and has not ended
DeleteStarted(id) ==
    \E p \in DOMAIN procs :
        procs[p].pc \in {"r2.delete", "db.delete"} /\ procs[p].req.id = id

\* C25: a retrieval of /f/:slug is answered NotFound only when no row has
\* the slug; when it has read the row of a public upload without expiry and
\* no delete of that row has started, it is answered 200 with the uploaded
\* bytes and a Content-Length of their number.
C25_RoundTrip ==
    resp.route = "/f/" =>
      /\ resp.decision = "NotFound" => SelectBySlug(ReqSlug(resp.req)) = {}
      /\ (/\ resp.row \in files
          /\ resp.row.is_private = 0
          /\ resp.row.expiry_timestamp = NullTs
          /\ ~DeleteStarted(resp.row.id)) =>
            /\ resp.status = 200
            /\ resp.body = UploadedBody(resp.row.original_filename)
            /\ resp.length = Len(UploadedBody(resp.row.original_filename))

C25_Witness ==
    /\ resp.route = "/f/"
    /\ resp.status = 200
    /\ resp.row \in files
    /\ resp.body = <<7, 8>>
    /\ resp.length = 2

\* C29: a retrieval of /f/:slug next to admin deletes is answered 200 or 404;
\* a 200 carries all the uploaded bytes of the row it read; a retrieval that
\* reads the table when the row of the slug has been deleted is NotFound.
C29_RetrieveDuringDelete ==
    resp.route = "/f/" =>
      /\ resp.status \in {200, 404}
      /\ resp.status = 200 =>
            /\ resp.body = UploadedBody(resp.row.original_filename)
            /\ resp.length = Len(resp.body)
      /\ (ReqSlug(resp.req) \in dead /\ SelectBySlug(ReqSlug(resp.req)) = {}) =>
            /\ resp.status = 404
            /\ resp.trace = <<"db.select">> => resp.decision = "NotFound"

C29_Witness ==
    /\ resp.route = "/f/"
    /\ resp.status = 404
    /\ resp.out = <<"Missing">>
    /\ procs["p2"].pc = "db.delete"
    /\ procs["p2"].req.id = resp.row.id

----------------------------------------------------------------------------
(* Expiry: one public upload with and without expiryDays, /f/:slug, and a   *)
(* clock that moves by a millisecond at any time and by a day between       *)
(* requests                                                                 *)

ExpiryForms == {FileForm(<<7>>, Absent, d, FALSE) : d \in {Absent, <<"0">>, <<"1">>}}

\* the clock moves while no request is in flight
TickIdle(t) ==
    /\ \A p \in DOMAIN procs : procs[p].pc = "idle"
    /\ Tick(t)

NextExpiry ==
    \/ \E form \in ExpiryForms : UploadStart("p1", form, 1)
    \/ \E slug \in Slugs : UploadSlug("p1", slug)
    \/ UploadPut("p1", TRUE)
    \/ UploadInsert("p1", TRUE)
    \/ \E url \in RoundUrls : RetrieveStart("p1", "/f/", url, FALSE, TRUE)
    \/ RetrieveGet("p1", TRUE)
    \/ Tick(StartTime + 1)
    \/ \E t \in {StartTime + DayMs, StartTime + DayMs + 1, StartTime + DayMs + 2} :
            TickIdle(t)

SpecExpiry == Init /\ [][NextExpiry]_vars

\* C26: the row inserted for an upload has a null expiry when expiryDays is
\* omitted or 0 and an expiry when it is 1; a retrieval of a row with a null
\* expiry is not Expired at any clock value; a retrieval of a row with an
\* expiry is answered 200 at the clock value of its upload and 410 at every
\* clock value after upload_timestamp + 86400000.
C26_ExpiryDays ==
    [][/\ \A r \in Inserted :
            LET d == procs["p1"].req.expiryDays IN
            /\ d \in {Absent, <<"0">>} => r.expiry_timestamp = NullTs
            /\ d = <<"1">> => r.expiry_timestamp # NullTs
       /\ (resp'.route = "/f/" /\ resp'.row # NoRow) =>
            LET row == resp'.row IN
            /\ row.expiry_timestamp = NullTs => resp'.status = 200
            /\ (row.expiry_timestamp # NullTs /\ resp'.at = row.upload_timestamp) =>
                    resp'.status = 200
            /\ (row.expiry_timestamp # NullTs /\ resp'.at > row.upload_timestamp + DayMs) =>
                    resp'.status = 410
    ]_vars

C26_Witness ==
    /\ resp.route = "/f/"
    /\ resp.status = 410
    /\ resp.row.upload_timestamp = StartTime + 1
    /\ resp.row.expiry_timestamp = StartTime + DayMs
    /\ resp.at = StartTime + DayMs + 2

----------------------------------------------------------------------------
(* Properties of retrieval: public records and the frame                    *)

\* C27: a retrieval that has read a row with is_private = 0 whose expiry is
\* not passed is Granted, whatever passcode the request carries and whether
\* or not the row stores a passcode hash.
C27_PublicGranted ==
    (/\ resp.route \in RetrievalRoutes
     /\ resp.row # NoRow
     /\ resp.row.is_private = 0
     /\ ~PastExpiry(resp.row, resp.at))
    => resp.decision = "Granted"

C27_Witness ==
    /\ resp.route = "/f/"
    /\ resp.row.is_private = 0
    /\ resp.row.passcode_hash = hashString(PassA)
    /\ ReqQuery(resp.req, "passcode") = PassB
    /\ resp.status = 200

\* the decision a retrieval of the url takes on the table and the clock
DecisionNow(url) ==
    IF SelectBySlug(ReqSlug(url)) = {} THEN {"NotFound"}
    ELSE {Evaluate(r, now, ReqQuery(url, "passcode")) : r \in SelectBySlug(ReqSlug(url))}

\* C28: a step of a retrieval changes neither the table nor the bucket; once
\* it has answered, with the clock where it was at the decision, the row it
\* read is in the table, the same request takes the same decision, and the
\* bytes of a 200 are in the bucket.
C28_RetrievalFrame ==
    [][(resp'.route \in RetrievalRoutes \/ procs'["p1"].pc = "get") =>
        /\ files' = files
        /\ bucket' = bucket
        /\ (resp'.route \in RetrievalRoutes /\ resp'.decision # "Gate" /\ resp'.out # <<"Error">>
            /\ resp'.decision # "Error" /\ (resp'.row # NoRow => resp'.at = now)) =>
             /\ resp'.row # NoRow => resp'.row \in files
             /\ resp'.decision \in DecisionNow(resp'.req)
             /\ resp'.status = 200 =>
                  LET key == r2ObjectKey(resp'.row.id, resp'.row.original_filename) IN
                  key \in DOMAIN bucket' /\ bucket'[key] = resp'.body
    ]_vars

C28_Witness ==
    /\ resp.route = "/f/"
    /\ resp.decision = "Expired"
    /\ resp.row \in files
    /\ r2ObjectKey(resp.row.id, resp.row.original_filename) \in DOMAIN bucket

----------------------------------------------------------------------------
(* Properties of the upload form                                            *)

\* C30: a step that answers an upload whose file field is absent or a string
\* answers 400 with no store call made, and leaves the table, the bucket,
\* the ids and the requests in flight as they were.
C30_NoFilePart ==
    [][(resp'.route = "/api/upload" /\ resp'.req.fileKind # "file") =>
        /\ resp'.status = 400
        /\ resp'.trace = <<>>
        /\ files' = files
        /\ bucket' = bucket
        /\ procs' = procs
        /\ usedIds' = usedIds
       /\ \A p \in DOMAIN procs :
            procs'[p].route = "/api/upload" => procs'[p].req.fileKind = "file"
    ]_vars

C30_Witness ==
    /\ resp.route = "/api/upload"
    /\ resp.req.fileKind = "string"
    /\ resp.status = 400
    /\ files # {}

----------------------------------------------------------------------------
(* Properties of concurrent uploads: the slug race                          *)

\* C31: when an upload reaches its insert with a slug that a row has taken
\* since its existence check, the insert adds no row, the upload is answered
\* 500 and ends without another draw, and its object stays in the bucket,
\* derived by no row, next to the object of the row that has the slug; an
\* insert with a slug that is still free adds the row and is answered 200.
C31_SlugRace ==
    [][\A p \in Procs :
         LET q == procs[p]
             key == r2ObjectKey(q.row.id, q.row.original_filename)
         IN
         (q.pc = "insert" /\ procs'[p] # q) =>
            IF SelectBySlug(q.row.short_url_slug) # {}
            THEN /\ files' = files
                 /\ resp'.status = 500
                 /\ procs'[p].pc = "idle"
                 /\ key \in DOMAIN bucket'
                 /\ \A r \in files' : r2ObjectKey(r.id, r.original_filename) # key
                 /\ \A r \in SelectBySlug(q.row.short_url_slug) :
                        r2ObjectKey(r.id, r.original_filename) \in DOMAIN bucket'
            ELSE /\ files' = files \cup {q.row}
                 /\ resp'.status = 200
    ]_vars

C31_Witness ==
    /\ resp.route = "/api/upload"
    /\ resp.status = 500
    /\ resp.trace = <<"db.select", "r2.put", "db.insert">>
    /\ \A p \in Procs : procs[p].pc = "idle"
    /\ Cardinality(files) = 1
    /\ Cardinality(DOMAIN bucket) = 2

----------------------------------------------------------------------------
(* The short link from the first request to the bytes: one public record,   *)
(* a browser that follows every redirect, App's ad screen. The server       *)
(* answers every request and the interval of the countdown fires.           *)

FlowForms == {FileForm(<<7>>, pc, Absent, FALSE) : pc \in {Absent, PassA}}

FlowLinks ==
    {RetrievalUrl("/s/", slug, q) :
        slug \in Slugs, q \in {<<>>, <<[k |-> <<"passcode">>, v |-> PassB]>>}}

\* the /s/ handler answers the navigation of the browser
FlowServe ==
    /\ browser.nav # <<>>
    /\ ParseUrl(browser.nav).path[1] = "/s/"
    /\ RetrieveStart("p1", "/s/", browser.nav, TRUE, TRUE)

NextFlow ==
    \/ \E form \in FlowForms : UploadStart("p1", form, 1)
    \/ \E slug \in Slugs : UploadSlug("p1", slug)
    \/ UploadPut("p1", TRUE)
    \/ UploadInsert("p1", TRUE)
    \/ \E url \in FlowLinks : BrowserOpen(url)
    \/ FlowServe
    \/ RetrieveGet("p1", TRUE)
    \/ AppCountdownTick

\* a navigation of the browser waits for the /s/ handler: the states in
\* which FlowServe can take a step
FlowPending ==
    /\ browser.nav # <<>>
    /\ ~browser.sent
    /\ procs["p1"].pc = "idle"
    /\ ParseUrl(browser.nav).path[1] = "/s/"

\* weak fairness of FlowServe, WF_vars(FlowServe), with the states in which
\* it is enabled written out
FairServe == []<>(~FlowPending) \/ []<><<FlowServe>>_vars

SpecFlow ==
    /\ Init
    /\ [][NextFlow]_vars
    /\ FairServe
    /\ WF_vars(RetrieveGet("p1", TRUE))
    /\ WF_vars(AppCountdownTick)

\* the browser is about to request a short link without ad=seen whose slug
\* is the slug of a public row
FlowStart ==
    /\ browser.nav # <<>>
    /\ ~browser.sent
    /\ ~AdSeen(browser.nav)
    /\ \E r \in SelectBySlug(ReqSlug(browser.nav)) : r.is_private = 0

----------------------------------------------------------------------------
(* The short-link route against the plain route                             *)

\* the status /f/:slug answers with, on the table, the bucket and the clock
\* value t, when no store call fails
PlainStatus(slug, providedPasscode, t) ==
    IF SelectBySlug(slug) = {} THEN {404}
    ELSE {IF fileMetadata.expiry_timestamp # NullTs /\ t > fileMetadata.expiry_timestamp
          THEN 410
          ELSE IF fileMetadata.is_private = 1 /\ ~Truthy(providedPasscode)
          THEN 401
          ELSE IF fileMetadata.is_private = 1
                  /\ hashString(providedPasscode) # fileMetadata.passcode_hash
          THEN 403
          ELSE IF r2ObjectKey(fileMetadata.id, fileMetadata.original_filename)
                    \notin DOMAIN bucket
          THEN 404
          ELSE 200 : fileMetadata \in SelectBySlug(slug)}

\* the location is the frontend with an error message
IsErrorPage(loc) ==
    /\ loc # <<>>
    /\ ~IsPrompt(loc)
    /\ ~IsInterstitial(loc)
    /\ Truthy(SearchParamsGet(ParseUrl(loc).query, <<"error">>))

C34_GateBeforeStores ==
    (resp.route = "/s/" /\ ReqQuery(resp.req, "ad") # <<"seen">>)
    =>
    resp = [Respond("/s/", resp.req, 302, "Gate", <<>>) EXCEPT
                !.location = AdScreenRedirectUrl(resp.req)]

C34_Witness ==
    /\ resp.route = "/s/"
    /\ resp.decision = "Gate"
    /\ \E r \in SelectBySlug(ReqSlug(resp.req)) : r.is_private = 1 /\ PastExpiry(r, now)

----------------------------------------------------------------------------
(* Toggling privacy: records uploaded private with a passcode or public     *)
(* without one, admin updates of is_private, the admin list, and /f/:slug   *)

ToggleForms ==
    {FileForm(<<7>>, PassA, Absent, TRUE), FileForm(<<7>>, Absent, Absent, FALSE)}

ToggleUpdates ==
    {AdminReq("update", AdminToken("admin", StartTime + DayMs), uuidv4(i), v, <<>>, <<>>) :
        i \in 0..(MaxFiles - 1), v \in {"true", "false"}}
    \cup {AdminReq("list", AdminToken("admin", StartTime + DayMs), <<>>, "undefined",
                   <<>>, <<>>)}

ToggleUrls ==
    {RetrievalUrl("/f/", slug, q) :
        slug \in Slugs,
        q \in {<<>>} \cup {<<[k |-> <<"passcode">>, v |-> v]>> : v \in {PassA, PassB}}}

NextToggle ==
    \/ \E form \in ToggleForms : UploadStart("p1", form, MaxFiles)
    \/ \E slug \in Slugs : UploadSlug("p1", slug)
    \/ UploadPut("p1", TRUE)
    \/ UploadInsert("p1", TRUE)
    \/ \E req \in ToggleUpdates : AdminRequest("p1", req, TRUE)
    \/ \E url \in ToggleUrls : RetrieveStart("p1", "/f/", url, FALSE, TRUE)
    \/ RetrieveGet("p1", TRUE)

SpecToggle == Init /\ [][NextToggle]_vars

\* C35: an admin update keeps the passcode hash of every row; a retrieval
\* of a row made public is Granted with any or no passcode, a retrieval of a
\* private row that was uploaded with passcode p is Granted exactly with p,
\* and a retrieval of a private row without a hash is never Granted.
C35_ToggleKeepsSecret ==
    [][/\ resp'.route = AdminRoute("update") =>
            \A r \in files : \E r2 \in files' :
                r2.id = r.id /\ r2.passcode_hash = r.passcode_hash
       /\ (resp'.route = "/f/" /\ resp'.row # NoRow) =>
            LET row == resp'.row
                providedPasscode == ReqQuery(resp'.req, "passcode")
            IN
            /\ row.passcode_hash \in {NullHash, hashString(PassA)}
            /\ IF row.is_private = 0 THEN resp'.status = 200
               ELSE IF row.passcode_hash = hashString(PassA)
               THEN resp'.status = 200 <=> providedPasscode = PassA
               ELSE resp'.status \in {401, 403}
    ]_vars

C35_Witness ==
    /\ resp.route = "/f/"
    /\ resp.status = 200
    /\ ReqQuery(resp.req, "passcode") = Absent
    /\ resp.row.is_private = 0
    /\ resp.row.passcode_hash = hashString(PassA)

----------------------------------------------------------------------------
(* Properties of issued tokens                                              *)

\* C36: the token of a login answered 200 carries the role admin, and the
\* middleware answers it 403 at no clock value; a request that sends the
\* token of the login response just received is not stopped by the
\* middleware with 403.
C36_IssuedTokensAreAdmin ==
    [][/\ (resp'.route = AdminRoute("login") /\ resp'.status = 200) =>
            /\ resp'.out[2].payload.role = "admin"
            /\ \A t \in {now', AdminPayload.exp + TokenMinutes * 60 * 1000,
                         AdminPayload.exp + TokenMinutes * 60 * 1000 + 1} :
                    AdminAuth(resp'.out, t) # 403
       /\ (/\ resp.route = AdminRoute("login")
           /\ resp.status = 200
           /\ resp'.route \in AdminRoutes
           /\ resp'.req.header = resp.out) =>
                ~(resp'.decision = "AuthFailed" /\ resp'.status = 403)
    ]_vars

C36_Witness ==
    /\ resp.route = AdminRoute("list")
    /\ resp.status = 200
    /\ Len(resp.req.header) = 3
    /\ resp.req.header[2].payload.exp = AdminPayload.exp + TokenMinutes * 60 * 1000

----------------------------------------------------------------------------
(* Properties of what the responses carry                                   *)

\* the values a passcode_hash column can hold
Hashes == {NullHash, hashString(PassA), hashString(PassB)}

\* C37: the admin list carries for every row the eight listed columns and
\* no passcode_hash, and is the same whatever hashes the rows store; the
\* upload response carries the slug, the filename, isPrivate and the expiry;
\* the decision of a retrieval of a public row is the same for every value
\* of its passcode_hash.
C37_HashNotRevealed ==
    /\ (resp.route = AdminRoute("list") /\ resp.status = 200) =>
         /\ \A x \in resp.out :
              DOMAIN x = {"id", "short_url_slug", "original_filename", "mime_type",
                          "file_size", "upload_timestamp", "expiry_timestamp",
                          "is_private"}
         /\ \A h \in Hashes :
              resp.out = {ListColumns([r EXCEPT !.passcode_hash = h]) : r \in files}
    /\ (resp.route = "/api/upload" /\ resp.status = 200) =>
         DOMAIN resp.out = {"shortUrlSlug", "originalFilename", "isPrivate",
                            "expiryTimestamp"}
    /\ (resp.route = "/f/" /\ resp.row # NoRow /\ resp.row.is_private = 0) =>
         \A h \in Hashes :
            Evaluate([resp.row EXCEPT !.passcode_hash = h], resp.at,
                     ReqQuery(resp.req, "passcode")) = resp.decision

C37_Witness ==
    /\ resp.route = AdminRoute("list")
    /\ resp.status = 200
    /\ \E r \in files : r.is_private = 0 /\ r.passcode_hash = hashString(PassA)
    /\ \E r \in files : r.passcode_hash = NullHash

----------------------------------------------------------------------------
(* App's countdown with the interval, the render and the effect as separate *)
(* steps: adScreenCountdown is the state, renderedCountdown the value of    *)
(* the last render, stale tells that the state changed since, passive that  *)
(* the effect of the last render has not run                                *)

\* how many times the interval may fire beyond a count of 0
MaxLate == 2

\* the interval fires: setAdScreenCountdown(prevCount => prevCount - 1)
AppIntervalFires ==
    /\ browser.page = "app"
    /\ browser.showAdScreen
    /\ browser.timer
    /\ browser.nav = <<>>
    /\ browser.adScreenCountdown > 0 - MaxLate
    /\ browser' = [browser EXCEPT !.adScreenCountdown = @ - 1, !.stale = TRUE]
    /\ resp' = NoResp
    /\ UNCHANGED <<now, files, bucket, usedIds, procs, dead>>

\* the pending effect of the last render: the cleanup clears the interval,
\* then the effect arms a new one, navigates, or does nothing
AppEffectOf(b) ==
    LET c == b.renderedCountdown
        cleared == [b EXCEPT !.passive = FALSE, !.timer = FALSE]
        finalDownloadUrl == ParseUrl(b.adScreenDownloadUrl)
    IN
    IF ~b.passive THEN b
    ELSE IF b.showAdScreen /\ c > 0 THEN [cleared EXCEPT !.timer = TRUE]
    ELSE IF b.showAdScreen /\ c = 0
    THEN IF ~Truthy(b.adScreenDownloadUrl) THEN [cleared EXCEPT !.showAdScreen = FALSE]
         ELSE IF ~IsAbsoluteUrl(b.adScreenDownloadUrl) THEN [cleared EXCEPT !.page = "error"]
         ELSE [cleared EXCEPT !.sent = FALSE,
                  !.nav = UrlToString([finalDownloadUrl EXCEPT !.query =
                            SearchParamsSet(finalDownloadUrl.query, <<"ad">>, <<"seen">>)])]
    ELSE cleared

\* React flushes the pending effect and renders the new state
AppRender ==
    /\ browser.page = "app"
    /\ browser.stale
    /\ browser.nav = <<>>
    /\ LET b == AppEffectOf(browser) IN
       browser' = IF b.page = "app" /\ b.nav = <<>>
                  THEN [b EXCEPT !.renderedCountdown = b.adScreenCountdown,
                                 !.stale = FALSE, !.passive = TRUE]
                  ELSE b
    /\ resp' = NoResp
    /\ UNCHANGED <<now, files, bucket, usedIds, procs, dead>>

\* the effect of the last render runs
AppEffect ==
    /\ browser.page = "app"
    /\ browser.passive
    /\ browser.nav = <<>>
    /\ browser' = AppEffectOf(browser)
    /\ resp' = NoResp
    /\ UNCHANGED <<now, files, bucket, usedIds, procs, dead>>

NextCountdown ==
    \/ \E form \in FlowForms : UploadStart("p1", form, 1)
    \/ \E slug \in Slugs : UploadSlug("p1", slug)
    \/ UploadPut("p1", TRUE)
    \/ UploadInsert("p1", TRUE)
    \/ \E url \in FlowLinks : BrowserOpen(url)
    \/ FlowServe
    \/ RetrieveGet("p1", TRUE)
    \/ AppIntervalFires
    \/ AppRender
    \/ AppEffect

SpecCountdown == Init /\ [][NextCountdown]_vars

\* C38 (as claimed): while App shows the ad screen its countdown is one of
\* 5, 4, 3, 2, 1, 0.
C38_CountdownValues ==
    (browser.page = "app" /\ browser.showAdScreen)
    => browser.adScreenCountdown \in 0..CountdownStart

----------------------------------------------------------------------------
(* The download proxy                                                       *)

\* C39 (as claimed): the download proxy answers with a redirect, without
\* bytes and without a store operation: to the home page with the error
\* message when the request has no url parameter, and to the interstitial
\* with showAd=true and downloadUrl equal to the parameter when it has one.
C39_ProxyRedirects ==
    resp.route = "/download-proxy" =>
        LET loc == ParseUrl(resp.location)
            present == FirstWithKey(ParseUrl(resp.req).query, <<"url">>, 1) # 0
        IN
        /\ resp.status = 302
        /\ resp.body = <<>>
        /\ resp.trace = <<>>
        /\ loc.origin = Origin
        /\ loc.path = <<"/">>
        /\ IF present
           THEN /\ SearchParamsGet(loc.query, <<"showAd">>) = <<"true">>
                /\ SearchParamsGet(loc.query, <<"downloadUrl">>) = ReqQuery(resp.req, "url")
           ELSE SearchParamsGet(loc.query, <<"error">>) = <<"Download link is incomplete.">>

\* C39 (amended): the download proxy answers with a redirect, without bytes
\* and without a store operation: to the interstitial with showAd=true and
\* downloadUrl equal to the url parameter when that parameter is present and
\* not empty, and to the home page with the error message otherwise.
C39_ProxyRedirectsNonEmpty ==
    resp.route = "/download-proxy" =>
        LET loc == ParseUrl(resp.location)
            originalDownloadUrl == ReqQuery(resp.req, "url")
        IN
        /\ resp.status = 302
        /\ resp.body = <<>>
        /\ resp.trace = <<>>
        /\ loc.origin = Origin
        /\ loc.path = <<"/">>
        /\ IF Truthy(originalDownloadUrl)
           THEN /\ SearchParamsGet(loc.query, <<"showAd">>) = <<"true">>
                /\ SearchParamsGet(loc.query, <<"downloadUrl">>) = originalDownloadUrl
                /\ browser.showAdScreen
                /\ browser.adScreenDownloadUrl = originalDownloadUrl
           ELSE /\ SearchParamsGet(loc.query, <<"error">>) = <<"Download link is incomplete.">>
                /\ ~browser.showAdScreen

C39_Witness ==
    /\ resp.route = "/download-proxy"
    /\ ReqQuery(resp.req, "url") = <<"/s/", "s1">>
    /\ IsInterstitial(resp.location)
    /\ browser.adScreenDownloadUrl = <<"/s/", "s1">>

=============================================================================
